---- MODULE Spec2Model ----
(***************************************************************************)
(* Run orchestration engine of paperfig: the per-figure generate/critique  *)
(* loop and the finalization pipeline of Orchestrator._execute_generation, *)
(* with the inspection summary, the architecture critique rules and the    *)
(* reproducibility audit it calls; Orchestrator.rerun, which replays a     *)
(* persisted run through the same pipeline; and Orchestrator.diff.         *)
(***************************************************************************)
EXTENDS FiniteSets, Integers, Sequences, TLC

\* ---------------------------------------------------------------- bounds
MaxIterations == 2
MaxFigures == 2

\* ------------------------------------------------------------ option type
\* A file, directory or Optional value that is absent is None; present
\* content x is Some(x).
None == <<>>
Some(x) == <<x>>
Get(o) == o[1]

\* ---------------------------------------------------------------- domains
FigureIds == 1..MaxFigures
IterationSlots == 1..(MaxIterations + 1)

SEVERITY_ORDER == [info |-> 0, minor |-> 1, major |-> 2, critical |-> 3]
Severities == {"info", "minor", "major", "critical"}

\* Reports a Figure Critic may return. The orchestrator accepts any critic
\* (tests inject their own), so passed is independent of score/threshold.
\* Scores are percentages.
CritiqueReports ==
    { [score |-> 90, threshold |-> 75, failed_dimensions |-> {},
       issues |-> {}, recommendations |-> {}, passed |-> TRUE],
      [score |-> 60, threshold |-> 75, failed_dimensions |-> {"readability"},
       issues |-> {"labels unclear"}, recommendations |-> {"add legend"},
       passed |-> FALSE],
      [score |-> 40, threshold |-> 75, failed_dimensions |-> {"aesthetics"},
       issues |-> {"layout"}, recommendations |-> {"align"}, passed |-> TRUE] }

\* The dataclass fields of FigurePlan.
FigurePlanFields == {"figure_id", "title", "kind", "order", "abstraction_level",
                     "description", "justification", "template_id", "source_spans"}

\* A FigurePlan as PlannerAgent builds it: the abstraction level follows the
\* kind, the spans are those of the sections the figure draws on (possibly
\* none).
PlannedFigure(fid, ord) ==
    LET kind == IF fid % 2 = 1 THEN "methodology" ELSE "results"
    IN  [figure_id |-> fid,
         title |-> IF fid % 2 = 1 THEN "Method overview" ELSE "Results summary",
         kind |-> kind,
         order |-> ord,
         abstraction_level |-> IF kind = "methodology" THEN "high" ELSE "medium",
         description |-> "Template-driven figure",
         justification |-> "Selected by template",
         template_id |-> IF fid % 2 = 1 THEN "method_flow" ELSE "heuristic_fallback",
         source_spans |-> IF fid % 2 = 1
                          THEN << [section |-> "methodology", start |-> fid, end |-> fid + 10] >>
                          ELSE << >>]

\* The plans a Plan Source may return: ordered, ids unique. The ids are
\* taken in descending order, so that plan order differs from the sorted
\* directory order inspect uses.
Plans == { [i \in 1..n |-> PlannedFigure(n + 1 - i, i)] : n \in 0..MaxFigures }

TopFiles == {"run.json", "sections.json", "plan.json", "prompts/plan_figure.txt",
             "prompts/critique_figure.txt", "style_refs.json", "captions.txt",
             "traceability.json", "inspect.json", "docs_drift_report.json",
             "architecture_critique.json", "repro_audit.json"}

\* The run ids of the run root; _new_run_id (a timestamp and a uuid4 token)
\* is taken to return an id no directory of the run root has.
RunIds == {"run-a", "run-b"}
new_run_id(existing) == CHOOSE r \in RunIds : r \notin existing

VARIABLES
    \* Orchestrator configuration (constructor arguments and paperfig.yaml)
    max_iterations, arch_critique_mode, arch_critique_block_severity,
    repro_audit_mode, docs_auto_regen_on_generate,
    quality_threshold, dimension_threshold, template_pack,
    \* the operation called ("generate" or "rerun"), the orchestrator it was
    \* called on, the source run directory of a rerun, and the arguments
    \* _plan_override and _metadata_overrides of generate
    op, caller, source_run, plan_override, metadata_overrides,
    \* the id of the run being created, and the number of Plan Source calls
    run_id, planner_calls,
    \* diff: the run directories of the run root, the two run ids diff is
    \* called with, and the report it returns
    run_root, run_id_1, run_id_2, diff_report,
    \* a call of inspect, export, audit, critique_architecture, diff or rerun
    \* on the run root: the call with its arguments, the value it returned,
    \* and the output directory export was given
    call, result, export_out,
    \* the plan, and the repository documents as the drift check left them
    plan, docs,
    \* position and locals of _execute_generation
    pc, raised, figure_index, iteration, accepted, last_report,
    critique_feedback, candidate, captions, traceability_records,
    \* the run directory
    runFiles, figures,
    \* log of collaborator calls and stage executions, in order
    events,
    \* documentation regeneration: the docs manifest and the documents of
    \* the repository it lists
    manifest, documents,
    \* the lab workflow: the policy file, index.json of the lab run's
    \* registry, and the experiment directories
    lab_policy, lab_index, lab_experiments,
    \* a generate followed write by write: the writes it has still to make
    pending

configVars == <<max_iterations, arch_critique_mode, arch_critique_block_severity,
                repro_audit_mode, docs_auto_regen_on_generate, plan,
                quality_threshold, dimension_threshold, template_pack,
                op, caller, source_run, plan_override, metadata_overrides,
                manifest, documents, lab_policy, lab_index, lab_experiments,
                pending>>
callVars == <<run_id, planner_calls>>
diffVars == <<run_root, run_id_1, run_id_2, diff_report, call, result, export_out>>
localVars == <<figure_index, iteration, accepted, last_report,
               critique_feedback, candidate, captions, traceability_records>>
vars == <<max_iterations, arch_critique_mode, arch_critique_block_severity,
          repro_audit_mode, docs_auto_regen_on_generate, plan, docs,
          quality_threshold, dimension_threshold, template_pack,
          op, caller, source_run, plan_override, metadata_overrides,
          run_id, planner_calls, run_root, run_id_1, run_id_2, diff_report,
          call, result, export_out,
          pc, raised, figure_index, iteration, accepted, last_report,
          critique_feedback, candidate, captions, traceability_records,
          runFiles, figures, events, manifest, documents,
          lab_policy, lab_index, lab_experiments, pending>>

\* ---------------------------------------------------------------- helpers
Event(kind, fig, iter, feedback, ok) ==
    [kind |-> kind, figure |-> fig, iteration |-> iter, feedback |-> feedback, ok |-> ok]

EmptyIterDir == [svg |-> None, element_metadata |-> None, traceability |-> None,
                 critique |-> None]
EmptyFigureDir == [iters |-> [i \in IterationSlots |-> None], final |-> None]

figure_plan == plan[figure_index]
figure_id == figure_plan.figure_id

\* The parameters run.json records and rerun reads back.
ConfigKeys == {"max_iterations", "quality_threshold", "dimension_threshold",
               "template_pack", "arch_critique_mode",
               "arch_critique_block_severity", "repro_audit_mode"}

\* The configuration of the orchestrator the variables describe.
SelfConfig ==
    [max_iterations |-> max_iterations,
     quality_threshold |-> quality_threshold,
     dimension_threshold |-> dimension_threshold,
     template_pack |-> template_pack,
     arch_critique_mode |-> arch_critique_mode,
     arch_critique_block_severity |-> arch_critique_block_severity,
     repro_audit_mode |-> repro_audit_mode]

\* run.json of a run directory that does not exist: never read.
NoMetadata == [run_id |-> "run-a", paper_path |-> "paper.md", created_at |-> "t"]

\* The run directory rerun is pointed at, as rerun reads it: whether the
\* directory exists, what run.json and plan.json parse to, and whether the
\* recorded paper still exists.
SourceRun(exists, run_json, meta, paper_exists, plan_json, plan_data) ==
    [run_id |-> "run-a", exists |-> exists, run_json |-> run_json, meta |-> meta,
     paper_exists |-> paper_exists, plan_json |-> plan_json, plan_data |-> plan_data]

\* No call was made on the run root.
NoCall == [op |-> "none"]

\* The documents are those the variable docs describes; no manifest is
\* spelled out.
NoManifest ==
    /\ manifest = [documents |-> << >>, auto_blocks |-> << >>]
    /\ documents = << >>

\* No generate is being followed write by write.
NoPending == pending = << >>

\* No lab run was initialised.
NoLab ==
    /\ lab_policy = [allowed_prefixes |-> << >>, blocked_patterns |-> << >>]
    /\ lab_index = << >>
    /\ lab_experiments = << >>

NoSourceRun == SourceRun(FALSE, "missing", NoMetadata, FALSE, "missing", <<>>)

\* Orchestrator.__init__ for a direct generate call; thresholds are
\* percentages (defaults 0.75 and 0.55).
Init ==
    /\ NoManifest
    /\ NoLab
    /\ NoPending
    /\ max_iterations \in 0..MaxIterations
    /\ arch_critique_mode \in {"inline", "off"}
    /\ arch_critique_block_severity \in Severities
    /\ repro_audit_mode \in {"soft", "hard"}
    /\ docs_auto_regen_on_generate \in BOOLEAN
    /\ quality_threshold = 75
    /\ dimension_threshold = 55
    /\ template_pack = "expanded_v1"
    /\ plan \in Plans
    /\ op = "generate"
    /\ caller = SelfConfig
    /\ source_run = NoSourceRun
    /\ plan_override = None
    /\ metadata_overrides = None
    /\ run_id = None
    /\ planner_calls = 0
    /\ run_root = [r \in RunIds |-> None]
    /\ run_id_1 = "run-a"
    /\ run_id_2 = "run-a"
    /\ diff_report = None
    /\ call = NoCall
    /\ result = None
    /\ export_out = None
    /\ docs = "unread"
    /\ pc = "start"
    /\ raised = "none"
    /\ figure_index = 0
    /\ iteration = 0
    /\ accepted = FALSE
    /\ last_report = None
    /\ critique_feedback = None
    /\ candidate = None
    /\ captions = <<>>
    /\ traceability_records = <<>>
    /\ runFiles = [f \in TopFiles |-> None]
    /\ figures = [f \in FigureIds |-> None]
    /\ events = <<>>

\* _execute_generation up to the figure loop: the run directory is created
\* and metadata, sections, plan, prompts and style references are written.
\* _write_run_metadata: the recorded parameters, then metadata.update(extra).
RunMetadata(rid, extra) ==
    LET metadata ==
            [run_id |-> rid,
             max_iterations |-> max_iterations,
             quality_threshold |-> quality_threshold,
             dimension_threshold |-> dimension_threshold,
             template_pack |-> template_pack,
             arch_critique_mode |-> arch_critique_mode,
             arch_critique_block_severity |-> arch_critique_block_severity,
             repro_audit_mode |-> repro_audit_mode,
             paper_path |-> "paper.md", created_at |-> "t", config_hash |-> "h",
             seed |-> "null"]
    IN  IF extra # None THEN Get(extra) @@ metadata ELSE metadata

\* dataclasses.asdict of a FigurePlan: every dataclass field.
asdict(item) == [k \in FigurePlanFields |-> item[k]]

\* Mutant: plan.json is written as an empty list.
write_plan_Empty(p) == << >>

\* _write_plan: plan.json is the list of the entries' dicts.
write_plan(p) == [i \in DOMAIN p |-> asdict(p[i])]

\* The run directories of the run root when the run is created.
ExistingRunIds == IF source_run.exists THEN {source_run.run_id} ELSE {}

NextFigurePc(idx) == IF idx < Len(plan) THEN "figure" ELSE "aggregate"

\* generate: the plan is _plan_override when given, else the Plan Source is
\* asked (its answer is plan); then _execute_generation starts.
StartRun ==
    /\ pc = "start"
    /\ planner_calls' = IF plan_override = None THEN planner_calls + 1 ELSE planner_calls
    /\ run_id' = Some(new_run_id(ExistingRunIds))
    /\ runFiles' = [runFiles EXCEPT !["run.json"] =
                                        Some(RunMetadata(new_run_id(ExistingRunIds),
                                                         metadata_overrides)),
                                    !["sections.json"] = Some("sections"),
                                    !["plan.json"] = Some(write_plan(plan)),
                                    !["prompts/plan_figure.txt"] = Some("prompt"),
                                    !["prompts/critique_figure.txt"] = Some("prompt"),
                                    !["style_refs.json"] = Some("style")]
    /\ pc' = NextFigurePc(0)
    /\ UNCHANGED <<configVars, diffVars, docs, raised, localVars, figures, events>>

\* ------------------------------------------------------ per-figure loop
\* Mutant: the loop bound off by one, range(1, max_iterations + 2).
LoopContinues_OffByOne(it) == it <= max_iterations

\* for iteration in range(1, self.max_iterations + 1): is there a round
\* after round it?
LoopContinues(it) == it < max_iterations

\* for figure_plan in plan: directory created, loop locals reset.
BeginFigure ==
    /\ pc = "figure"
    /\ figure_index' = figure_index + 1
    /\ LET fid == plan[figure_index + 1].figure_id
       IN  figures' = [figures EXCEPT ![fid] =
                          IF @ = None THEN Some(EmptyFigureDir) ELSE @]
    /\ accepted' = FALSE
    /\ last_report' = None
    /\ critique_feedback' = None
    /\ candidate' = None
    /\ iteration' = 1
    /\ pc' = IF LoopContinues(0) THEN "generate" ELSE "figure_end"
    /\ UNCHANGED <<configVars, callVars, diffVars, docs, raised, captions, traceability_records,
                   runFiles, events>>

\* What GeneratorAgent.generate writes into its output directory: the
\* content is identified by the call that produced it.
Artifact(fid, it, file) == [figure_id |-> fid, iteration |-> it, file |-> file]

GeneratedIterDir(old, fid, it) ==
    [svg |-> Some(Artifact(fid, it, "figure.svg")),
     element_metadata |-> Some(Artifact(fid, it, "element_metadata.json")),
     traceability |-> Some(Artifact(fid, it, "traceability.json")),
     critique |-> IF old = None THEN None ELSE Get(old).critique]

SetIterDir(fid, it, dir) ==
    [figures EXCEPT ![fid] = Some([Get(@) EXCEPT !.iters[it] = dir])]

\* Mutant: the generator's error is swallowed and the figure is skipped.
AfterGeneratorErrorPc_Skip == "figure_end"

\* No try/except surrounds the generator call: its error leaves
\* _execute_generation.
AfterGeneratorErrorPc == "aborted"

\* candidate = self.generator.generate(figure_plan, paper, iter_dir,
\* iteration, critique_feedback=critique_feedback); an error raised by the
\* generator (after it created its output directory) propagates out of
\* generate.
GeneratorGenerate ==
    /\ pc = "generate"
    /\ \/ /\ figures' = SetIterDir(figure_id, iteration,
                 Some(GeneratedIterDir(Get(figures[figure_id]).iters[iteration],
                                       figure_id, iteration)))
          /\ candidate' = Some([figure_id |-> figure_id, iter_dir |-> iteration])
          /\ events' = Append(events,
                 Event("generate", figure_id, iteration, critique_feedback, TRUE))
          /\ pc' = "critique"
          /\ UNCHANGED raised
       \/ /\ figures' = SetIterDir(figure_id, iteration,
                    IF Get(figures[figure_id]).iters[iteration] = None
                    THEN Some(EmptyIterDir)
                    ELSE Get(figures[figure_id]).iters[iteration])
          /\ events' = Append(events,
                 Event("generate", figure_id, iteration, critique_feedback, FALSE))
          /\ pc' = AfterGeneratorErrorPc
          /\ raised' = "GenerationFailure"
          /\ UNCHANGED candidate
    /\ UNCHANGED <<configVars, callVars, diffVars, docs, figure_index, iteration, accepted, last_report,
                   critique_feedback, captions, traceability_records, runFiles>>

\* Mutant: the feedback loses the failed dimensions.
Feedback_NoDimensions(report) ==
    [previous_score |-> report.score,
     issues |-> report.issues,
     recommendations |-> report.recommendations,
     failed_dimensions |-> {}]

\* critique_feedback = {previous_score, issues, recommendations,
\* failed_dimensions} of the report just received.
Feedback(report) ==
    [previous_score |-> report.score,
     issues |-> report.issues,
     recommendations |-> report.recommendations,
     failed_dimensions |-> report.failed_dimensions]

\* Mutant: acceptance decided by score against threshold.
Passed_ByScore(report) == report.score >= report.threshold

\* if report.passed:
Passed(report) == report.passed

\* shutil.copy2 of figure.svg, element_metadata.json and traceability.json
\* from an iteration directory into final/.
CopyToFinal(figdir, slot) ==
    LET src == Get(figdir.iters[slot])
    IN  [figdir EXCEPT !.final = Some([svg |-> Get(src.svg),
                                       element_metadata |-> Get(src.element_metadata),
                                       traceability |-> Get(src.traceability)])]

\* Mutant: the critic's error is swallowed and the run goes on to its
\* finalization.
AfterCriticErrorPc_Continue == "aggregate"

\* No try/except surrounds the critic call either.
AfterCriticErrorPc == "aborted"

\* report = self.critic.critique(...); the report is persisted as
\* critique.json; a passing report finalizes the figure and leaves the loop.
CriticCritique ==
    /\ pc = "critique"
    /\ \/ \E report \in CritiqueReports :
            LET withCritique ==
                    [Get(figures[figure_id]) EXCEPT
                        !.iters[iteration] = Some([Get(@) EXCEPT !.critique = Some(report)])]
            IN  /\ last_report' = Some(report)
                /\ critique_feedback' = Some(Feedback(report))
                /\ events' = Append(events,
                       Event("critique", figure_id, iteration, None, TRUE))
                /\ IF Passed(report)
                   THEN /\ figures' = [figures EXCEPT ![figure_id] =
                               Some(CopyToFinal(withCritique, Get(candidate).iter_dir))]
                        /\ accepted' = TRUE
                        /\ pc' = "figure_end"
                        /\ UNCHANGED iteration
                   ELSE /\ figures' = [figures EXCEPT ![figure_id] = Some(withCritique)]
                        /\ UNCHANGED accepted
                        /\ IF LoopContinues(iteration)
                           THEN iteration' = iteration + 1 /\ pc' = "generate"
                           ELSE UNCHANGED iteration /\ pc' = "figure_end"
                /\ UNCHANGED raised
       \/ /\ events' = Append(events,
                 Event("critique", figure_id, iteration, None, FALSE))
          /\ pc' = AfterCriticErrorPc
          /\ raised' = "CritiqueFailure"
          /\ UNCHANGED <<figures, last_report, critique_feedback, accepted, iteration>>
    /\ UNCHANGED <<configVars, callVars, diffVars, docs, figure_index, candidate, captions,
                   traceability_records, runFiles>>

\* Mutant: the fallback copies the round before the last one.
FallbackSlot_Previous == IF max_iterations > 1 THEN max_iterations - 1 ELSE max_iterations

\* last_iter_dir = figure_dir / f"iter_{self.max_iterations}"
FallbackSlot == max_iterations

\* if not accepted and last_report: fall back to the last iteration; then
\* the caption and the final traceability record are accumulated.
FinishFigure ==
    /\ pc = "figure_end"
    /\ LET figdir == Get(figures[figure_id])
           after == IF ~accepted /\ last_report # None
                    THEN CopyToFinal(figdir, FallbackSlot)
                    ELSE figdir
       IN  /\ figures' = [figures EXCEPT ![figure_id] = Some(after)]
           /\ traceability_records' =
                 IF after.final # None
                 THEN Append(traceability_records, Get(after.final).traceability)
                 ELSE traceability_records
           /\ events' = IF after.final # None /\ figdir.final = None
                        THEN Append(events, Event("fallback", figure_id, FallbackSlot, None, TRUE))
                        ELSE events
    /\ captions' = Append(captions, figure_id)
    /\ pc' = NextFigurePc(figure_index)
    /\ UNCHANGED <<configVars, callVars, diffVars, docs, raised, figure_index, iteration, accepted,
                   last_report, critique_feedback, candidate, runFiles>>

\* ------------------------------------------------------------- inspect
\* The critique reports of a figure directory, by ascending iteration;
\* iteration directories without critique.json are skipped.
IterReports(figdir) ==
    LET slots == SelectSeq([i \in 1..(MaxIterations + 1) |-> i],
                     LAMBDA i : /\ figdir.iters[i] # None
                                /\ Get(figdir.iters[i]).critique # None)
    IN  [k \in 1..Len(slots) |->
            [iteration |-> slots[k], report |-> Get(Get(figdir.iters[slots[k]]).critique)]]

\* One entry of summary["figures"].
FigureSummary(fid, figdir, run_max_iterations) ==
    LET iter_reports == IterReports(figdir)
        hasReport == Len(iter_reports) > 0
        last == iter_reports[Len(iter_reports)].report
        isAccepted == hasReport /\ last.passed
    IN  [figure_id |-> fid,
         iterations_attempted |-> Len(iter_reports),
         max_iterations_hit |-> /\ hasReport
                                /\ Len(iter_reports) >= run_max_iterations
                                /\ ~isAccepted,
         accepted |-> isAccepted,
         final_score |-> IF hasReport THEN Some(last.score) ELSE None,
         final_passed |-> IF hasReport THEN Some(last.passed) ELSE None,
         failed_dimensions |-> IF hasReport THEN last.failed_dimensions ELSE {},
         final_svg_path |-> IF figdir.final # None THEN Some(fid) ELSE None]

\* A quotient, kept exact.
Ratio(n, d) == [num |-> n, den |-> d]

RECURSIVE Sum(_)
Sum(values) == IF values = << >> THEN 0 ELSE Head(values) + Sum(Tail(values))

\* (sum(values) / len(values)) if values else None
Average(values) == IF Len(values) = 0 THEN None ELSE Some(Ratio(Sum(values), Len(values)))

\* final_scores: the numeric final scores of the figure summaries.
FinalScores(figure_summaries) ==
    LET scored == SelectSeq(figure_summaries, LAMBDA item : item.final_score # None)
    IN  [k \in DOMAIN scored |-> Get(scored[k].final_score)]

\* Mutant: the cap of the inspecting instance is used.
run_max_iterations_OfInstance(files, self_max_iterations) == self_max_iterations

\* run_max_iterations = int(metadata.get("max_iterations", self.max_iterations))
run_max_iterations(files, self_max_iterations) ==
    IF files["run.json"] # None /\ "max_iterations" \in DOMAIN Get(files["run.json"])
    THEN Get(files["run.json"]).max_iterations
    ELSE self_max_iterations

\* Orchestrator.inspect without filters, over a run directory given by its
\* top-level files and figure directories.
Inspect(files, figs, self_max_iterations) ==
    LET ids == SelectSeq([i \in 1..MaxFigures |-> i], LAMBDA f : figs[f] # None)
        figure_summaries ==
            [k \in 1..Len(ids) |-> FigureSummary(ids[k], Get(figs[ids[k]]),
                                          run_max_iterations(files, self_max_iterations))]
        accepted_count ==
            Cardinality({k \in 1..Len(ids) :
                            /\ figure_summaries[k].final_passed # None
                            /\ Get(figure_summaries[k].final_passed)})
    IN  [plan_count |-> IF files["plan.json"] # None THEN Len(Get(files["plan.json"])) ELSE 0,
         figures |-> figure_summaries,
         aggregate |-> [total_figures |-> Len(ids),
                        accepted_count |-> accepted_count,
                        failed_count |-> Len(ids) - accepted_count,
                        avg_final_score |-> Average(FinalScores(figure_summaries))]]

\* -------------------------------------------------- finalization pipeline
\* captions.txt and the aggregated traceability.json are written.
WriteAggregates ==
    /\ pc = "aggregate"
    /\ runFiles' = [runFiles EXCEPT !["captions.txt"] = Some(captions),
                                    !["traceability.json"] = Some(traceability_records)]
    /\ pc' = "inspect"
    /\ UNCHANGED <<configVars, callVars, diffVars, docs, raised, localVars, figures, events>>

\* self._write_inspect_snapshot(run_id)
WriteInspectSnapshot ==
    /\ pc = "inspect"
    /\ runFiles' = [runFiles EXCEPT !["inspect.json"] =
                        Some(Inspect(runFiles, figures, max_iterations))]
    /\ events' = Append(events, Event("inspect", 0, 0, None, TRUE))
    /\ pc' = "docs"
    /\ UNCHANGED <<configVars, callVars, diffVars, docs, raised, localVars, figures>>

\* run_docs_regeneration: a missing document or a document whose rendering
\* differs from its text is drift; drifted text is rewritten unless
\* check_only.
DocsReport(state, check_only) ==
    [check_only |-> check_only,
     drift_detected |-> state # "clean",
     written |-> state = "drifted" /\ ~check_only]

DocsAfter(state, check_only) ==
    IF state = "drifted" /\ ~check_only THEN "clean" ELSE state

\* Mutant: drift that was regenerated away does not fail the run.
DocsGateFails_UnlessWritten(report) == report.drift_detected /\ ~report.written

\* if docs_report.get("drift_detected"): raise RuntimeError
DocsGateFails(report) == report.drift_detected

\* Mutant: the architecture critique runs whatever the mode.
AfterDocsPc_Always == "architecture"

\* if self.arch_critique_mode == "inline":
AfterDocsPc == IF arch_critique_mode = "inline" THEN "architecture" ELSE "audit"

\* The states the documents of the manifest can be found in.
DocStates == {"clean", "drifted", "missing"}

\* docs_regenerate on the documents as found, docs_drift_report.json, and
\* the drift gate.
DocsRegenerate ==
    /\ pc = "docs"
    /\ \E found \in DocStates :
       LET report == DocsReport(found, ~docs_auto_regen_on_generate)
       IN  /\ docs' = DocsAfter(found, ~docs_auto_regen_on_generate)
           /\ runFiles' = [runFiles EXCEPT !["docs_drift_report.json"] = Some(report)]
           /\ events' = Append(events, Event("docs", 0, 0, None, TRUE))
           /\ IF DocsGateFails(report)
              THEN pc' = "aborted" /\ raised' = "DocsDrift"
              ELSE pc' = AfterDocsPc /\ UNCHANGED raised
    /\ UNCHANGED <<configVars, callVars, diffVars, localVars, figures>>

\* ------------------------------------------------- architecture critique
Finding(id, severity) == [finding_id |-> id, severity |-> severity]

missing_inspect(inspect_data) ==
    IF inspect_data # None THEN {} ELSE {Finding("missing_inspect", "major")}

\* Mutant: failed figures are a critical finding.
failed_figures_Critical(inspect_data) ==
    IF inspect_data = None THEN {}
    ELSE IF Get(inspect_data).aggregate.failed_count <= 0 THEN {}
    ELSE {Finding("failed_figures", "critical")}

failed_figures(inspect_data) ==
    IF inspect_data = None THEN {}
    ELSE IF Get(inspect_data).aggregate.failed_count <= 0 THEN {}
    ELSE {Finding("failed_figures", "major")}

missing_plan(plan_data) ==
    IF plan_data # None THEN {} ELSE {Finding("missing_plan", "critical")}

empty_plan(plan_data) ==
    IF plan_data = None THEN {}
    ELSE IF Len(Get(plan_data)) > 0 THEN {}
    ELSE {Finding("empty_plan", "critical")}

missing_docs_drift_report(docs_drift_report) ==
    IF docs_drift_report # None THEN {}
    ELSE {Finding("missing_docs_drift_report", "minor")}

\* avg_traceability_coverage < 0.8: the coverage depends on the rendered
\* elements, which the run directory model does not hold; the finding needs
\* a numeric average, so at least one finalized figure.
traceability_coverage_low(inspect_data) ==
    IF inspect_data = None THEN {{}}
    ELSE IF \E k \in DOMAIN Get(inspect_data).figures :
                Get(inspect_data).figures[k].final_svg_path # None
         THEN {{}, {Finding("traceability_coverage_low", "major")}}
         ELSE {{}}

MaxSeen(findings) ==
    IF findings = {} THEN 0
    ELSE CHOOSE m \in 0..3 :
            /\ \E f \in findings : SEVERITY_ORDER[f.severity] = m
            /\ \A f \in findings : SEVERITY_ORDER[f.severity] <= m

\* blocked = max_seen >= SEVERITY_ORDER.get(block_severity, critical)
Blocked(findings, block_severity) ==
    MaxSeen(findings) >= SEVERITY_ORDER[block_severity]

\* ArchitectureCriticAgent.critique with every rule enabled.
ArchitectureReport(files, block_severity, env) ==
    LET findings == missing_inspect(files["inspect.json"])
                    \cup failed_figures(files["inspect.json"])
                    \cup missing_plan(files["plan.json"])
                    \cup empty_plan(files["plan.json"])
                    \cup missing_docs_drift_report(files["docs_drift_report.json"])
                    \cup env
    IN  [block_severity |-> block_severity,
         findings |-> findings,
         blocked |-> Blocked(findings, block_severity)]

\* Mutant: a blocked report does not stop the run.
ArchitectureGateFails_Never(report) == FALSE

\* if architecture_report.get("blocked"): raise RuntimeError
ArchitectureGateFails(report) == report.blocked

\* Inline architecture critique of generate: the report is persisted, a
\* blocked report raises.
CritiqueArchitecture ==
    /\ pc = "architecture"
    /\ \E env \in traceability_coverage_low(runFiles["inspect.json"]) :
          LET report == ArchitectureReport(runFiles, arch_critique_block_severity, env)
          IN  /\ runFiles' = [runFiles EXCEPT !["architecture_critique.json"] = Some(report)]
              /\ IF ArchitectureGateFails(report)
                 THEN pc' = "aborted" /\ raised' = "ArchitectureBlocked"
                 ELSE pc' = "audit" /\ UNCHANGED raised
    /\ events' = Append(events, Event("architecture", 0, 0, None, TRUE))
    /\ UNCHANGED <<configVars, callVars, diffVars, docs, localVars, figures>>

\* ------------------------------------------------- reproducibility audit
RequiredArtifacts == {"plan.json", "sections.json", "traceability.json",
                      "inspect.json", "docs_drift_report.json",
                      "architecture_critique.json", "prompts/plan_figure.txt",
                      "prompts/critique_figure.txt"}

\* One ReproAuditCheck.
ReproAuditCheck(check_id, required, passed) ==
    [check_id |-> check_id, required |-> required, passed |-> passed]

\* _artifact_check for each required artifact, in the order of the source;
\* a check is identified here by the path it is about (check_id is
\* "artifact_" and the path).
ArtifactOrder ==
    << "plan.json", "sections.json", "traceability.json", "inspect.json",
       "docs_drift_report.json", "architecture_critique.json",
       "prompts/plan_figure.txt", "prompts/critique_figure.txt" >>

\* Mutant: the seed check is required.
SeedRequired_Always == TRUE

\* required=False of the check deterministic_seed_declared.
SeedRequired == FALSE

\* The checks of run_reproducibility_audit, in order. run_json is {} when
\* run.json is missing; the hash check is made only for a non-empty
\* expected hash.
ReproChecks(files, expected_config_hash) ==
    LET has_run_json == files["run.json"] # None
        run_json == IF has_run_json THEN Get(files["run.json"]) ELSE << >>
        has_command_meta == /\ has_run_json
                            /\ "paper_path" \in DOMAIN run_json
                            /\ run_json.paper_path # ""
                            /\ "created_at" \in DOMAIN run_json
                            /\ run_json.created_at # ""
        has_seed == has_run_json /\ "seed" \in DOMAIN run_json
        run_hash == IF has_run_json /\ "config_hash" \in DOMAIN run_json
                    THEN run_json.config_hash ELSE ""
    IN  << ReproAuditCheck("run_json_present", TRUE, has_run_json) >>
        \o [k \in DOMAIN ArtifactOrder |->
               ReproAuditCheck(ArtifactOrder[k], TRUE, files[ArtifactOrder[k]] # None)]
        \o << ReproAuditCheck("provenance_metadata", TRUE, has_command_meta),
              ReproAuditCheck("deterministic_seed_declared", SeedRequired, has_seed) >>
        \o (IF expected_config_hash # ""
            THEN << ReproAuditCheck("config_hash_match", TRUE,
                                    run_hash = expected_config_hash) >>
            ELSE << >>)

\* run_reproducibility_audit: the report passes when no required check
\* failed; required_failed names the failed required checks the summary
\* counts.
ReproAuditReport(files, mode, expected_config_hash) ==
    LET checks == ReproChecks(files, expected_config_hash)
        required_failed ==
            {checks[k].check_id : k \in {n \in DOMAIN checks :
                                            checks[n].required /\ ~checks[n].passed}}
    IN  [mode |-> mode,
         checks |-> checks,
         required_failed |-> required_failed,
         passed |-> Cardinality(required_failed) = 0]

\* Mutant: a failed audit raises in either mode.
AuditGateFails_AnyMode(mode, report) == ~report.passed

\* if self.repro_audit_mode == "hard" and not repro_report.get("passed", False):
AuditGateFails(mode, report) == mode = "hard" /\ ~report.passed

\* repro_report = self.audit(run_id, mode=self.repro_audit_mode); in hard
\* mode a failed audit raises; otherwise generate returns the run id.
Audit ==
    /\ pc = "audit"
    /\ LET report == ReproAuditReport(runFiles, repro_audit_mode, "h")
       IN  /\ runFiles' = [runFiles EXCEPT !["repro_audit.json"] = Some(report)]
           /\ IF AuditGateFails(repro_audit_mode, report)
              THEN pc' = "aborted" /\ raised' = "ReproAuditFailed"
              ELSE pc' = "done" /\ UNCHANGED raised
    /\ events' = Append(events, Event("audit", 0, 0, None, TRUE))
    /\ UNCHANGED <<configVars, callVars, diffVars, docs, localVars, figures>>

Next ==
    \/ StartRun
    \/ BeginFigure
    \/ GeneratorGenerate
    \/ CriticCritique
    \/ FinishFigure
    \/ WriteAggregates
    \/ WriteInspectSnapshot
    \/ DocsRegenerate
    \/ CritiqueArchitecture
    \/ Audit

Spec == Init /\ [][Next]_vars

\* ------------------------------------------------------------------ rerun
\* dict.get(key, default)
dict_get(data, key, default) == IF key \in DOMAIN data THEN data[key] ELSE default

\* Mutant: the source spans are not read back.
plan_from_dict_NoSpans(data) ==
    [figure_id |-> dict_get(data, "figure_id", ""),
     title |-> dict_get(data, "title", ""),
     kind |-> dict_get(data, "kind", ""),
     order |-> dict_get(data, "order", 0),
     abstraction_level |-> dict_get(data, "abstraction_level", "medium"),
     description |-> dict_get(data, "description", ""),
     justification |-> dict_get(data, "justification", ""),
     template_id |-> dict_get(data, "template_id", ""),
     source_spans |-> << >>]

\* _plan_from_dict: a FigurePlan from the nine keys it reads, each with its
\* default. The values are what json.loads returns for what _write_plan
\* wrote (strings, an int, a list), on which str(), int() and list()
\* return their argument.
plan_from_dict(data) ==
    [figure_id |-> dict_get(data, "figure_id", ""),
     title |-> dict_get(data, "title", ""),
     kind |-> dict_get(data, "kind", ""),
     order |-> dict_get(data, "order", 0),
     abstraction_level |-> dict_get(data, "abstraction_level", "medium"),
     description |-> dict_get(data, "description", ""),
     justification |-> dict_get(data, "justification", ""),
     template_id |-> dict_get(data, "template_id", ""),
     source_spans |-> dict_get(data, "source_spans", << >>)]

\* plan = [self._plan_from_dict(item) for item in plan_data]
LoadPlan(plan_data) == [i \in DOMAIN plan_data |-> plan_from_dict(plan_data[i])]

\* source_run_meta.get(key, self.<key>): the recorded value, and the value
\* of the orchestrator rerun was called on only when none is recorded.
ReplayValue(meta, self, key) == dict_get(meta, key, self[key])

\* Mutant: the new run is not tagged with its source.
RerunOverrides_Untagged(source_run_id) == [reused_plan |-> TRUE]

\* _metadata_overrides of the replay.
RerunOverrides(source_run_id) == [rerun_of |-> source_run_id, reused_plan |-> TRUE]

\* Mutant: an empty plan is replayed.
RerunRejection_EmptyPlanAllowed(src) ==
    IF ~src.exists THEN "NotFound"
    ELSE IF src.run_json # "object" THEN "RerunRejected"
    ELSE IF ~src.paper_exists THEN "NotFound"
    ELSE IF src.plan_json # "list" THEN "RerunRejected"
    ELSE "none"

\* The checks of rerun, in order: the error it raises, or "none".
RerunRejection(src) ==
    IF ~src.exists THEN "NotFound"
    ELSE IF src.run_json # "object" THEN "RerunRejected"
    ELSE IF ~src.paper_exists THEN "NotFound"
    ELSE IF src.plan_json # "list" THEN "RerunRejected"
    ELSE IF Len(LoadPlan(src.plan_data)) = 0 THEN "RerunRejected"
    ELSE "none"

\* Orchestrator.rerun up to replay.generate: the checks, then the replay
\* orchestrator is constructed and generate is called on it with the
\* persisted plan and the rerun metadata.
Rerun ==
    /\ pc = "rerun"
    /\ IF RerunRejection(source_run) # "none"
       THEN /\ pc' = "aborted"
            /\ raised' = RerunRejection(source_run)
            /\ UNCHANGED configVars
       ELSE /\ max_iterations' = ReplayValue(source_run.meta, caller, "max_iterations")
            /\ quality_threshold' = ReplayValue(source_run.meta, caller, "quality_threshold")
            /\ dimension_threshold' = ReplayValue(source_run.meta, caller, "dimension_threshold")
            /\ template_pack' = ReplayValue(source_run.meta, caller, "template_pack")
            /\ arch_critique_mode' = ReplayValue(source_run.meta, caller, "arch_critique_mode")
            /\ arch_critique_block_severity' =
                  ReplayValue(source_run.meta, caller, "arch_critique_block_severity")
            /\ repro_audit_mode' = ReplayValue(source_run.meta, caller, "repro_audit_mode")
            /\ plan' = LoadPlan(source_run.plan_data)
            /\ plan_override' = Some(LoadPlan(source_run.plan_data))
            /\ metadata_overrides' = Some(RerunOverrides(source_run.run_id))
            /\ pc' = "start"
            /\ UNCHANGED <<docs_auto_regen_on_generate, op, caller, source_run, raised,
                           manifest, documents, lab_policy, lab_index, lab_experiments,
                           pending>>
    /\ UNCHANGED <<callVars, diffVars, docs, localVars, runFiles, figures, events>>

\* Parameter sets run.json may record.
RecordedConfigs ==
    { [max_iterations |-> MaxIterations, quality_threshold |-> 75,
       dimension_threshold |-> 55, template_pack |-> "expanded_v1",
       arch_critique_mode |-> "inline", arch_critique_block_severity |-> "critical",
       repro_audit_mode |-> "soft"],
      [max_iterations |-> 1, quality_threshold |-> 80,
       dimension_threshold |-> 60, template_pack |-> "compact_v1",
       arch_critique_mode |-> "off", arch_critique_block_severity |-> "major",
       repro_audit_mode |-> "hard"],
      [max_iterations |-> 0, quality_threshold |-> 75,
       dimension_threshold |-> 55, template_pack |-> "expanded_v1",
       arch_critique_mode |-> "inline", arch_critique_block_severity |-> "critical",
       repro_audit_mode |-> "soft"] }

\* run.json of the source run: written by _write_run_metadata with the
\* parameters of that run, or one that records no parameter (every
\* parameter is read with a fallback).
SourceMetadata ==
    { cfg @@ [run_id |-> "run-a", paper_path |-> "paper.md", created_at |-> "t",
              config_hash |-> "h", seed |-> "null"] : cfg \in RecordedConfigs }
    \cup {NoMetadata}

\* The orchestrators rerun or generate is called on: the one the command
\* line builds (defaults), and one built with every parameter given.
\* supplied names the parameters the caller gave explicitly.
Callers ==
    { [max_iterations |-> MaxIterations, quality_threshold |-> 75,
       dimension_threshold |-> 55, template_pack |-> "expanded_v1",
       arch_critique_mode |-> "inline", arch_critique_block_severity |-> "critical",
       repro_audit_mode |-> "soft", supplied |-> {}],
      [max_iterations |-> 1, quality_threshold |-> 90,
       dimension_threshold |-> 70, template_pack |-> "custom_v2",
       arch_critique_mode |-> "inline", arch_critique_block_severity |-> "minor",
       repro_audit_mode |-> "hard", supplied |-> ConfigKeys] }

NonEmptyPlans == {p \in Plans : Len(p) > 0}

\* The source run directories rerun may find.
SourceRuns ==
    LET meta == CHOOSE m \in SourceMetadata : "max_iterations" \in DOMAIN m
        full == CHOOSE p \in NonEmptyPlans : TRUE
    IN  {NoSourceRun}
        \cup {SourceRun(TRUE, rj, NoMetadata, TRUE, "list", write_plan(full)) :
                 rj \in {"missing", "not_object"}}
        \cup {SourceRun(TRUE, "object", meta, FALSE, "list", write_plan(full))}
        \cup {SourceRun(TRUE, "object", meta, TRUE, pj, << >>) :
                 pj \in {"missing", "not_list"}}
        \cup {SourceRun(TRUE, "object", meta, TRUE, "list", << >>)}
        \cup {SourceRun(TRUE, "object", m, TRUE, "list", write_plan(p)) :
                 m \in SourceMetadata, p \in NonEmptyPlans}

\* An orchestrator is constructed and either generate or rerun is called
\* on it.
RerunInit ==
    /\ NoManifest
    /\ NoLab
    /\ NoPending
    /\ caller \in Callers
    /\ max_iterations = caller.max_iterations
    /\ quality_threshold = caller.quality_threshold
    /\ dimension_threshold = caller.dimension_threshold
    /\ template_pack = caller.template_pack
    /\ arch_critique_mode = caller.arch_critique_mode
    /\ arch_critique_block_severity = caller.arch_critique_block_severity
    /\ repro_audit_mode = caller.repro_audit_mode
    /\ docs_auto_regen_on_generate \in BOOLEAN
    /\ op \in {"generate", "rerun"}
    /\ IF op = "rerun"
       THEN source_run \in SourceRuns /\ plan = << >> /\ pc = "rerun"
       ELSE source_run \in {NoSourceRun} /\ plan \in Plans /\ pc = "start"
    /\ plan_override = None
    /\ metadata_overrides = None
    /\ run_id = None
    /\ planner_calls = 0
    /\ run_root = [r \in RunIds |-> None]
    /\ run_id_1 = "run-a"
    /\ run_id_2 = "run-a"
    /\ diff_report = None
    /\ call = NoCall
    /\ result = None
    /\ export_out = None
    /\ docs = "unread"
    /\ raised = "none"
    /\ figure_index = 0
    /\ iteration = 0
    /\ accepted = FALSE
    /\ last_report = None
    /\ critique_feedback = None
    /\ candidate = None
    /\ captions = <<>>
    /\ traceability_records = <<>>
    /\ runFiles = [f \in TopFiles |-> None]
    /\ figures = [f \in FigureIds |-> None]
    /\ events = <<>>

RerunNext ==
    \/ Rerun
    \/ StartRun
    \/ BeginFigure
    \/ GeneratorGenerate
    \/ CriticCritique
    \/ FinishFigure
    \/ WriteAggregates
    \/ WriteInspectSnapshot
    \/ DocsRegenerate
    \/ CritiqueArchitecture
    \/ Audit

RerunSpec == RerunInit /\ [][RerunNext]_vars

\* ------------------------------------------------------------------- diff
\* The top-level *.json files of a run directory, in sorted order.
JsonArtifactNames ==
    << "architecture_critique.json", "docs_drift_report.json", "inspect.json",
       "plan.json", "repro_audit.json", "run.json", "sections.json",
       "style_refs.json", "traceability.json" >>

\* The text of a top-level file. The inspection snapshot names its run
\* (run_id, run_dir), as run.json does in its metadata.
FileText(dir, rid, name) ==
    IF dir.files[name] = None THEN None
    ELSE Some([run |-> IF name = "inspect.json" THEN rid ELSE "-",
               data |-> Get(dir.files[name])])

\* Mutant: the snapshot is rebuilt and rewritten on every load, from the
\* caller's iteration cap.
BuildInspect_Always(root, rid) ==
    LET dir == Get(root[rid])
    IN  [root EXCEPT ![rid] =
            Some([dir EXCEPT !.files["inspect.json"] =
                     Some(Inspect([dir.files EXCEPT !["run.json"] = None],
                                  dir.figures, max_iterations))])]

\* _load_or_build_inspect: a run directory without inspect.json gets the
\* summary inspect builds.
BuildInspect(root, rid) ==
    LET dir == Get(root[rid])
    IN  IF dir.files["inspect.json"] # None THEN root
        ELSE [root EXCEPT ![rid] =
                 Some([dir EXCEPT !.files["inspect.json"] =
                          Some(Inspect(dir.files, dir.figures, max_iterations))])]

\* The aggregate of the snapshot diff reads. The traceability coverage is
\* computed by inspect from the final element files, whose content the
\* directory holds as their average.
AggregateOf(dir) ==
    LET aggregate == Get(dir.files["inspect.json"]).aggregate
    IN  [accepted_count |-> Some(Ratio(aggregate.accepted_count, 1)),
         avg_final_score |-> aggregate.avg_final_score,
         avg_traceability_coverage |-> dir.coverage]

\* Mutant: no delta is ever computed.
delta_Undefined(left, right) == None

\* _delta: right - left, None unless both are numbers.
delta(left, right) ==
    IF left = None \/ right = None THEN None
    ELSE Some(Ratio(Get(right).num * Get(left).den - Get(left).num * Get(right).den,
                    Get(left).den * Get(right).den))

Metric(left, right) == [run_1 |-> left, run_2 |-> right, delta |-> delta(left, right)]

\* by_id = {item["figure_id"]: item for item in inspect["figures"]}
FigureIdsOf(snapshot) == {snapshot.figures[k].figure_id : k \in DOMAIN snapshot.figures}
by_id(snapshot, f) ==
    snapshot.figures[CHOOSE k \in DOMAIN snapshot.figures :
                        /\ snapshot.figures[k].figure_id = f
                        /\ \A j \in DOMAIN snapshot.figures :
                              snapshot.figures[j].figure_id = f => j <= k]

\* _file_hash of the final figure.svg the summary points to: None when the
\* summary has no path or the file is gone. sha256 is taken to tell
\* different contents apart.
svg_hash(dir, fig) ==
    IF fig.final_svg_path = None THEN None
    ELSE LET figdir == dir.figures[Get(fig.final_svg_path)]
         IN  IF figdir = None THEN None
             ELSE IF Get(figdir).final = None THEN None
             ELSE Some(Get(Get(figdir).final).svg)

\* Mutant: the rendered artifact is not compared.
same_IgnoringHash(fig_1, fig_2, svg_hash_1, svg_hash_2) ==
    /\ fig_1.final_score = fig_2.final_score
    /\ fig_1.final_passed = fig_2.final_passed

same(fig_1, fig_2, svg_hash_1, svg_hash_2) ==
    /\ fig_1.final_score = fig_2.final_score
    /\ fig_1.final_passed = fig_2.final_passed
    /\ svg_hash_1 = svg_hash_2

\* _diff_figures: one entry per figure id of either snapshot, in sorted
\* order, the unchanged figures left out.
diff_figures(dir_1, inspect_1, dir_2, inspect_2) ==
    LET all_ids == SelectSeq([i \in 1..MaxFigures |-> i],
                       LAMBDA f : f \in FigureIdsOf(inspect_1) \cup FigureIdsOf(inspect_2))
        Entry(f) ==
            IF f \notin FigureIdsOf(inspect_1)
            THEN [figure_id |-> f, change |-> "added_in_run_2"]
            ELSE IF f \notin FigureIdsOf(inspect_2)
            THEN [figure_id |-> f, change |-> "removed_in_run_2"]
            ELSE IF same(by_id(inspect_1, f), by_id(inspect_2, f),
                         svg_hash(dir_1, by_id(inspect_1, f)),
                         svg_hash(dir_2, by_id(inspect_2, f)))
            THEN [figure_id |-> f, change |-> "same"]
            ELSE [figure_id |-> f, change |-> "modified"]
    IN  SelectSeq([k \in 1..Len(all_ids) |-> Entry(all_ids[k])],
                  LAMBDA e : e.change # "same")

\* Mutant: only files present in both directories are compared.
artifact_changed_BothPresent(text_1, text_2) ==
    text_1 # None /\ text_2 # None /\ text_1 # text_2

\* One name of _diff_json_artifacts: present in one directory only, or
\* present in both with different text.
artifact_changed(text_1, text_2) ==
    IF (text_1 # None) # (text_2 # None) THEN TRUE
    ELSE IF text_1 = None THEN FALSE
    ELSE text_1 # text_2

diff_json_artifacts(dir_1, rid_1, dir_2, rid_2) ==
    SelectSeq(JsonArtifactNames,
              LAMBDA name : artifact_changed(FileText(dir_1, rid_1, name),
                                             FileText(dir_2, rid_2, name)))

\* The report of diff, over the run root after both snapshots were loaded
\* or built.
DiffReport(root, rid_1, rid_2) ==
    LET dir_1 == Get(root[rid_1])
        dir_2 == Get(root[rid_2])
        inspect_1 == Get(dir_1.files["inspect.json"])
        inspect_2 == Get(dir_2.files["inspect.json"])
        aggregate_1 == AggregateOf(dir_1)
        aggregate_2 == AggregateOf(dir_2)
        changed_figures == diff_figures(dir_1, inspect_1, dir_2, inspect_2)
        changed_artifacts == diff_json_artifacts(dir_1, rid_1, dir_2, rid_2)
    IN  [run_id_1 |-> rid_1,
         run_id_2 |-> rid_2,
         metrics |->
            [accepted_count |->
                Metric(aggregate_1.accepted_count, aggregate_2.accepted_count),
             avg_final_score |->
                Metric(aggregate_1.avg_final_score, aggregate_2.avg_final_score),
             avg_traceability_coverage |->
                Metric(aggregate_1.avg_traceability_coverage,
                       aggregate_2.avg_traceability_coverage)],
         changed_figures |-> changed_figures,
         changed_artifacts |-> changed_artifacts,
         summary |-> [changed_figure_count |-> Len(changed_figures),
                      changed_artifact_count |-> Len(changed_artifacts)]]

\* Orchestrator.diff: both run directories must exist; the snapshots are
\* loaded or built (and then persisted), the report is computed.
Diff ==
    /\ pc = "diff"
    /\ IF run_root[run_id_1] = None \/ run_root[run_id_2] = None
       THEN /\ pc' = "aborted"
            /\ raised' = "NotFound"
            /\ UNCHANGED <<run_root, diff_report>>
       ELSE LET loaded == BuildInspect(BuildInspect(run_root, run_id_1), run_id_2)
            IN  /\ run_root' = loaded
                /\ diff_report' = Some(DiffReport(loaded, run_id_1, run_id_2))
                /\ pc' = "diffed"
                /\ UNCHANGED raised
    /\ UNCHANGED <<configVars, callVars, run_id_1, run_id_2, call, result,
                   export_out, docs, localVars, runFiles, figures, events>>

\* ---- the run directories generate leaves behind
PassingReport == CHOOSE r \in CritiqueReports : r.passed /\ r.failed_dimensions = {}
FailingReport == CHOOSE r \in CritiqueReports : ~r.passed

CritiquedIterDir(fid, it, report) ==
    [GeneratedIterDir(None, fid, it) EXCEPT !.critique = Some(report)]

\* The directory of a figure after its loop: accepted in the first round,
\* or failed in every round up to the cap and finalized by fallback. With
\* a cap of 0 the directory stays empty.
BuiltFigure(fid, cap, verdict) ==
    IF cap = 0 THEN EmptyFigureDir
    ELSE IF verdict = "accepted"
    THEN CopyToFinal([EmptyFigureDir EXCEPT
                         !.iters[1] = Some(CritiquedIterDir(fid, 1, PassingReport))], 1)
    ELSE CopyToFinal([iters |-> [i \in IterationSlots |->
                                   IF i <= cap
                                   THEN Some(CritiquedIterDir(fid, i, FailingReport))
                                   ELSE None],
                      final |-> None], cap)

\* value evaluated once and handed to F (a local variable of the source).
With(value, F(_)) == CHOOSE r \in {F(v) : v \in {value}} : TRUE

\* The figure directories of a run directory (see RunDirectoryOf).
RunFigures(p, cap, verdicts, stage) ==
    LET ids == {p[i].figure_id : i \in DOMAIN p}
    IN  [f \in FigureIds |->
            IF stage = "loop"
            THEN IF Len(p) > 0 /\ f = p[1].figure_id
                 THEN Some([EmptyFigureDir EXCEPT !.iters[1] = Some(EmptyIterDir)])
                 ELSE None
            ELSE IF f \in ids THEN Some(BuiltFigure(f, cap, verdicts[f])) ELSE None]

\* The top-level files after the plan was saved.
StartedFiles(rid, p, cap, stage) ==
    LET meta == [run_id |-> rid, max_iterations |-> cap, quality_threshold |-> 75,
                 dimension_threshold |-> 55, template_pack |-> "expanded_v1",
                 arch_critique_mode |-> IF stage = "critiqued" THEN "inline" ELSE "off",
                 arch_critique_block_severity |-> "critical",
                 repro_audit_mode |-> "soft", paper_path |-> "paper.md",
                 created_at |-> "t", config_hash |-> "h", seed |-> "null"]
    IN  [f \in TopFiles |->
            CASE f = "run.json" -> Some(meta)
              [] f = "sections.json" -> Some("sections")
              [] f = "plan.json" -> Some(write_plan(p))
              [] f \in {"prompts/plan_figure.txt", "prompts/critique_figure.txt"}
                   -> Some("prompt")
              [] f = "style_refs.json" -> Some("style")
              [] OTHER -> None]

\* ... after captions.txt and traceability.json were written.
AggregatedFiles(started, p, figs) ==
    LET finals == SelectSeq(p, LAMBDA e : Get(figs[e.figure_id]).final # None)
    IN  [started EXCEPT
            !["captions.txt"] = Some([i \in DOMAIN p |-> p[i].figure_id]),
            !["traceability.json"] =
                Some([i \in DOMAIN finals |->
                        Get(Get(figs[finals[i].figure_id]).final).traceability])]

\* ... after the inspection snapshot was written.
InspectedFiles(aggregated, figs, cap) ==
    [aggregated EXCEPT !["inspect.json"] = Some(Inspect(aggregated, figs, cap))]

\* ... after the docs check and, for the stage "critiqued", the inline
\* architecture critique.
ReviewedFiles(inspected, stage) ==
    With([inspected EXCEPT !["docs_drift_report.json"] = Some(DocsReport("clean", TRUE))],
         LAMBDA clean :
            IF stage = "critiqued"
            THEN [clean EXCEPT !["architecture_critique.json"] =
                     Some(ArchitectureReport(clean, "critical", {}))]
            ELSE clean)

\* ... after the reproducibility audit.
AuditedFiles(reviewed) ==
    [reviewed EXCEPT !["repro_audit.json"] = Some(ReproAuditReport(reviewed, "soft", "h"))]

\* A run directory: stage "loop" is a run whose generator failed in the
\* first round of the first figure, "drift" a run stopped by the docs gate,
\* "complete" a run that returned (architecture critique off, soft audit),
\* "critiqued" a run that returned with the inline architecture critique
\* on. verdicts gives the outcome of the loop of each figure.
RunDirectoryOf(rid, p, cap, verdicts, stage, coverage) ==
    With(RunFigures(p, cap, verdicts, stage), LAMBDA figs :
    With(StartedFiles(rid, p, cap, stage), LAMBDA started :
        IF stage = "loop"
        THEN [files |-> started, figures |-> figs, coverage |-> coverage]
        ELSE
    With(AggregatedFiles(started, p, figs), LAMBDA aggregated :
    With(InspectedFiles(aggregated, figs, cap), LAMBDA inspected :
        IF stage = "drift"
        THEN [files |-> [inspected EXCEPT !["docs_drift_report.json"] =
                            Some(DocsReport("drifted", TRUE))],
              figures |-> figs,
              coverage |-> coverage]
        ELSE
    With(ReviewedFiles(inspected, stage), LAMBDA reviewed :
        [files |-> AuditedFiles(reviewed),
         figures |-> figs,
         coverage |-> coverage])))))

\* A run directory whose figures all had the same outcome.
RunDirectory(rid, p, cap, verdict, stage, coverage) ==
    RunDirectoryOf(rid, p, cap, [f \in FigureIds |-> verdict], stage, coverage)

\* The average traceability coverage a directory can have: numeric exactly
\* when some figure has final element files.
Coverages(cap, p, stage) ==
    IF cap = 0 \/ Len(p) = 0 \/ stage = "loop" THEN {None}
    ELSE {Some(Ratio(1, 1)), Some(Ratio(1, 2))}

RunDirectories(rid) ==
    { RunDirectory(rid, t[1], t[2], t[3], t[4], t[5]) :
        t \in { u \in Plans \X {0, 1, MaxIterations} \X {"accepted", "missed"}
                      \X {"loop", "drift", "complete"}
                      \X {None, Some(Ratio(1, 1)), Some(Ratio(1, 2))} :
                 /\ u[5] \in Coverages(u[2], u[1], u[4])
                 /\ u[4] = "loop" => Len(u[1]) > 0 /\ u[2] >= 1
                 /\ (u[2] = 0 \/ Len(u[1]) = 0 \/ u[4] = "loop") => u[3] = "accepted" } }

\* diff is called on an orchestrator built with defaults, for two run ids
\* of a run root holding up to two run directories.
DiffInit ==
    /\ NoManifest
    /\ NoLab
    /\ NoPending
    /\ max_iterations = MaxIterations
    /\ arch_critique_mode = "inline"
    /\ arch_critique_block_severity = "critical"
    /\ repro_audit_mode = "soft"
    /\ docs_auto_regen_on_generate = TRUE
    /\ quality_threshold = 75
    /\ dimension_threshold = 55
    /\ template_pack = "expanded_v1"
    /\ plan = << >>
    /\ op = "diff"
    /\ caller = SelfConfig
    /\ source_run = NoSourceRun
    /\ plan_override = None
    /\ metadata_overrides = None
    /\ run_id = None
    /\ planner_calls = 0
    /\ run_root \in [RunIds -> {None}]
                    \cup {[r \in RunIds |-> IF r = "run-a" THEN Some(a) ELSE None] :
                             a \in RunDirectories("run-a")}
                    \cup {[r \in RunIds |-> IF r = "run-a" THEN Some(a) ELSE Some(b)] :
                             a \in RunDirectories("run-a"), b \in RunDirectories("run-b")}
    /\ run_id_1 \in RunIds
    /\ run_id_2 \in RunIds
    /\ diff_report = None
    /\ call = NoCall
    /\ result = None
    /\ export_out = None
    /\ docs = "unread"
    /\ pc = "diff"
    /\ raised = "none"
    /\ figure_index = 0
    /\ iteration = 0
    /\ accepted = FALSE
    /\ last_report = None
    /\ critique_feedback = None
    /\ candidate = None
    /\ captions = <<>>
    /\ traceability_records = <<>>
    /\ runFiles = [f \in TopFiles |-> None]
    /\ figures = [f \in FigureIds |-> None]
    /\ events = <<>>

DiffNext == Diff

DiffSpec == DiffInit /\ [][DiffNext]_vars

\* ===================================================== calls on the run root
\* ---- inspect with filters and traceability
\* The element files of a final directory: the number of entries of the
\* list in element_metadata.json (0 also when it holds no list), and for
\* each entry of "elements" in traceability.json whether its source_spans
\* is a non-empty list.
ElementFiles(n, trace) == [element_metadata |-> n, traceability |-> trace]

\* coverage = (traced_elements / total_elements) if total_elements else None
Coverage(traced_elements, total_elements) ==
    IF total_elements = 0 THEN None ELSE Some(Ratio(traced_elements, total_elements))

\* The "traceability" entry of a figure summary, from the element files of
\* the figure's final directory.
Traceability(figdir, content) ==
    LET final == figdir.final
        listed == IF final # None /\ Get(final).element_metadata # None
                  THEN content.element_metadata ELSE 0
        trace_elements == IF final # None /\ Get(final).traceability # None
                          THEN content.traceability ELSE << >>
        total_elements == IF listed = 0 THEN Len(trace_elements) ELSE listed
        traced_elements == Cardinality({k \in DOMAIN trace_elements : trace_elements[k]})
    IN  [total_elements |-> total_elements,
         traced_elements |-> traced_elements,
         coverage |-> Coverage(traced_elements, total_elements)]

RECURSIVE Product(_)
Product(values) == IF values = << >> THEN 1 ELSE Head(values) * Product(Tail(values))

\* sum(values) / len(values) over quotients, kept exact.
AverageRatio(values) ==
    IF Len(values) = 0 THEN None
    ELSE LET common == Product([k \in DOMAIN values |-> values[k].den])
             nums == [k \in DOMAIN values |->
                         values[k].num * (common \div values[k].den)]
         IN  Some(Ratio(Sum(nums), common * Len(values)))

\* coverage_values: the numeric coverages of the figure summaries.
CoverageValues(figure_summaries) ==
    LET covered == SelectSeq(figure_summaries,
                             LAMBDA item : item.traceability.coverage # None)
    IN  [k \in DOMAIN covered |-> Get(covered[k].traceability.coverage)]

\* The strings a failed-dimension filter or a critique report may hold.
DimensionStrings == {"readability", "Readability", " AESTHETICS ", "AESTHETICS",
                     "aesthetics", "faithfulness", ""}

\* str.strip()
strip(text) == IF text = " AESTHETICS " THEN "AESTHETICS" ELSE text

\* str.lower()
lower(text) ==
    CASE text = "Readability" -> "readability"
      [] text = "AESTHETICS" -> "aesthetics"
      [] text = " AESTHETICS " -> " aesthetics "
      [] OTHER -> text

\* Mutant: the dimension is compared as written.
DimensionMatches_CaseSensitive(dim, failed_dimension) == dim = strip(failed_dimension)

\* str(dim).lower() == failed_dimension.strip().lower()
DimensionMatches(dim, failed_dimension) == lower(dim) = lower(strip(failed_dimension))

\* The filter arguments of inspect, each None when not given.
Filters(figure, failures_only, min_score, failed_dimension) ==
    [figure_id |-> figure, failures_only |-> failures_only, min_score |-> min_score,
     failed_dimension |-> failed_dimension]

NoFilters == Filters(None, FALSE, None, None)

\* item.get("final_passed") is truthy
FinalPassed(item) == item.final_passed # None /\ Get(item.final_passed)

\* isinstance(final_score, (int, float)) and final_score >= min_score
ScoreAtLeast(item, min_score) ==
    item.final_score # None /\ Get(item.final_score) >= min_score

\* The four filters of inspect, applied in the order of the source; a
\* filter that is None, False or empty is skipped.
ApplyFilters(figure_summaries, filters) ==
    LET by_figure ==
            IF filters.figure_id # None
            THEN SelectSeq(figure_summaries,
                           LAMBDA item : item.figure_id = Get(filters.figure_id))
            ELSE figure_summaries
        failing ==
            IF filters.failures_only
            THEN SelectSeq(by_figure, LAMBDA item : ~FinalPassed(item))
            ELSE by_figure
        scored ==
            IF filters.min_score # None
            THEN SelectSeq(failing, LAMBDA item : ScoreAtLeast(item, Get(filters.min_score)))
            ELSE failing
    IN  IF filters.failed_dimension # None /\ Get(filters.failed_dimension) # ""
        THEN SelectSeq(scored,
                 LAMBDA item : \E dim \in item.failed_dimensions :
                                  DimensionMatches(dim, Get(filters.failed_dimension)))
        ELSE scored

\* summary["aggregate"] over a list of figure summaries.
Aggregate(figure_summaries) ==
    LET accepted_count ==
            Cardinality({k \in DOMAIN figure_summaries : FinalPassed(figure_summaries[k])})
        hit == SelectSeq(figure_summaries, LAMBDA item : item.max_iterations_hit)
    IN  [total_figures |-> Len(figure_summaries),
         accepted_count |-> accepted_count,
         failed_count |-> Len(figure_summaries) - accepted_count,
         avg_final_score |-> Average(FinalScores(figure_summaries)),
         avg_traceability_coverage |-> AverageRatio(CoverageValues(figure_summaries)),
         max_iterations_hit |-> [k \in DOMAIN hit |-> hit[k].figure_id]]

\* The figure summaries of a run directory with their traceability entry,
\* by ascending figure id.
FigureSummaries(dir, self_max_iterations) ==
    LET base == Inspect(dir.files, dir.figures, self_max_iterations).figures
    IN  [k \in DOMAIN base |->
            [traceability |-> Traceability(Get(dir.figures[base[k].figure_id]),
                                           dir.elements[base[k].figure_id])]
            @@ base[k]]

\* One entry of summary["warnings"]; figure and iteration name the
\* iteration directory a missing critique.json belongs to (0 otherwise).
Warning(text, fid, it) == [warning |-> text, figure_id |-> fid, iteration |-> it]

\* Mutant: an iteration directory without critique.json is skipped silently.
MissingCritiques_Silent(dir) == << >>

\* The iteration directories without critique.json, by ascending figure
\* and iteration.
MissingCritiques(dir) ==
    LET width == MaxIterations + 1
        slots == [k \in 1..(MaxFigures * width) |->
                     << ((k - 1) \div width) + 1, ((k - 1) % width) + 1 >>]
    IN  SelectSeq(slots, LAMBDA s : /\ dir.figures[s[1]] # None
                                    /\ Get(dir.figures[s[1]]).iters[s[2]] # None
                                    /\ Get(Get(dir.figures[s[1]]).iters[s[2]]).critique = None)

\* summary["warnings"] of a run directory that has its figures directory.
InspectWarnings(dir) ==
    LET missing == MissingCritiques(dir)
    IN  (IF dir.files["run.json"] = None
         THEN << Warning("Missing run metadata: run.json", 0, 0) >> ELSE << >>)
        \o (IF dir.files["plan.json"] = None
            THEN << Warning("Missing plan: plan.json", 0, 0) >> ELSE << >>)
        \o [k \in DOMAIN missing |->
               Warning("Missing critique file", missing[k][1], missing[k][2])]

\* Mutant: the aggregate is computed before the filters are applied.
InspectView_AggregateFirst(rid, dir, self_max_iterations, filters) ==
    LET all_summaries == FigureSummaries(dir, self_max_iterations)
    IN  [run_id |-> rid,
         plan_count |-> Inspect(dir.files, dir.figures, self_max_iterations).plan_count,
         figures |-> ApplyFilters(all_summaries, filters),
         aggregate |-> Aggregate(all_summaries),
         warnings |-> InspectWarnings(dir)]

\* Orchestrator.inspect on an existing run directory.
InspectView(rid, dir, self_max_iterations, filters) ==
    LET figure_summaries ==
            ApplyFilters(FigureSummaries(dir, self_max_iterations), filters)
    IN  [run_id |-> rid,
         plan_count |-> Inspect(dir.files, dir.figures, self_max_iterations).plan_count,
         figures |-> figure_summaries,
         aggregate |-> Aggregate(figure_summaries),
         warnings |-> InspectWarnings(dir)]

\* ---- export
\* An export directory: per figure the files <figure>.svg, .png, .tex and
\* .traceability.json, then captions.txt, traceability.json and
\* export_report.json; an absent file is None.
EmptyExportDir ==
    [figures |-> [f \in FigureIds |-> None], captions |-> None,
     traceability |-> None, export_report |-> None]

\* The files export writes for one figure that has final/figure.svg: the
\* PNG only when the converter works, the caption from the plan entry (the
\* figure id when plan.json has none).
ExportedFigure(fid, final, plan_data, png_ok) ==
    LET entries == IF plan_data = None THEN << >>
                   ELSE SelectSeq(Get(plan_data), LAMBDA item : item.figure_id = fid)
    IN  [svg |-> final.svg,
         png |-> IF png_ok THEN final.svg ELSE None,
         tex |-> Some([figure_id |-> fid,
                       caption |-> IF Len(entries) > 0
                                   THEN Some(entries[Len(entries)].title) ELSE None]),
         traceability |-> final.traceability]

\* Orchestrator.export after the existence check: the output directory as
\* the call leaves it; files of an earlier export it does not write again
\* stay.
Export(rid, dir, output_dir, png_ok) ==
    LET exported == {f \in FigureIds :
                        /\ dir.figures[f] # None
                        /\ Get(dir.figures[f]).final # None
                        /\ Get(Get(dir.figures[f]).final).svg # None}
    IN  [figures |-> [f \in FigureIds |->
                        IF f \in exported
                        THEN Some(ExportedFigure(f, Get(Get(dir.figures[f]).final),
                                                 dir.files["plan.json"], png_ok))
                        ELSE output_dir.figures[f]],
         captions |-> IF dir.files["captions.txt"] # None
                      THEN dir.files["captions.txt"] ELSE output_dir.captions,
         traceability |-> IF dir.files["traceability.json"] # None
                          THEN dir.files["traceability.json"]
                          ELSE output_dir.traceability,
         export_report |-> Some([run_id |-> rid,
                                 figures |-> exported,
                                 warnings |-> IF png_ok THEN {} ELSE exported])]

\* ---- architecture critique by rules
\* The rule ids of get_rule_registry, sorted.
RuleRegistry ==
    << "empty_plan", "failed_figures", "invalid_template_reference",
       "missing_docs_drift_report", "missing_flow_docs", "missing_inspect",
       "missing_plan", "traceability_gap" >>

RuleIds == {RuleRegistry[k] : k \in DOMAIN RuleRegistry}

\* Mutant: the selection is ignored and every rule is returned.
resolve_enabled_rules_All(enable) ==
    IF enable = None \/ Get(enable) = << >>
    THEN [error |-> "none", rules |-> RuleRegistry]
    ELSE IF \E k \in DOMAIN Get(enable) : Get(enable)[k] \notin RuleIds
         THEN [error |-> "UnknownRule", rules |-> << >>]
         ELSE [error |-> "none", rules |-> RuleRegistry]

\* resolve_enabled_rules: every rule, sorted by id, when no selection is
\* given; else the selected rules in the order given; an id that is not in
\* the registry is an error.
resolve_enabled_rules(enable) ==
    IF enable = None \/ Get(enable) = << >>
    THEN [error |-> "none", rules |-> RuleRegistry]
    ELSE IF \E k \in DOMAIN Get(enable) : Get(enable)[k] \notin RuleIds
         THEN [error |-> "UnknownRule", rules |-> << >>]
         ELSE [error |-> "none", rules |-> Get(enable)]

\* What the rules read: the run's inspect.json (with the average
\* traceability coverage of its aggregate), plan.json and
\* docs_drift_report.json, the flow documents of the repository and the
\* template ids of the catalog.
RuleContext(dir, repository) ==
    [inspect_data |-> dir.files["inspect.json"],
     avg_traceability_coverage |-> dir.coverage,
     plan_data |-> dir.files["plan.json"],
     docs_drift_report |-> dir.files["docs_drift_report.json"],
     flow_docs |-> repository.flow_docs,
     valid_template_ids |-> repository.valid_template_ids]

\* avg_cov < 0.8
traceability_gap(context) ==
    IF context.inspect_data = None THEN {}
    ELSE IF context.avg_traceability_coverage = None THEN {}
    ELSE IF 10 * Get(context.avg_traceability_coverage).num
               >= 8 * Get(context.avg_traceability_coverage).den THEN {}
    ELSE {Finding("traceability_gap", "major")}

\* The flows directory is missing (major), or some flow folder lacks its
\* README.md or diagram.mermaid (minor).
missing_flow_docs(context) ==
    CASE context.flow_docs = "missing" -> {Finding("missing_flow_docs", "major")}
      [] context.flow_docs = "incomplete" -> {Finding("missing_flow_docs", "minor")}
      [] OTHER -> {}

ALLOWED_SPECIAL_TEMPLATE_IDS == {"heuristic_fallback", "manual", ""}

invalid_template_reference(context) ==
    IF context.plan_data = None THEN {}
    ELSE IF Len(Get(context.plan_data)) = 0 \/ context.valid_template_ids = {} THEN {}
    ELSE IF \A k \in DOMAIN Get(context.plan_data) :
                \/ Get(context.plan_data)[k].template_id \in ALLOWED_SPECIAL_TEMPLATE_IDS
                \/ Get(context.plan_data)[k].template_id \in context.valid_template_ids
         THEN {}
    ELSE {Finding("invalid_template_reference", "major")}

\* rule.evaluator(context) of the rule registered under rule_id: the
\* findings of one rule (at most one).
EvaluateRule(rule_id, context) ==
    LET found ==
            CASE rule_id = "missing_inspect" -> missing_inspect(context.inspect_data)
              [] rule_id = "failed_figures" -> failed_figures(context.inspect_data)
              [] rule_id = "traceability_gap" -> traceability_gap(context)
              [] rule_id = "missing_plan" -> missing_plan(context.plan_data)
              [] rule_id = "empty_plan" -> empty_plan(context.plan_data)
              [] rule_id = "missing_docs_drift_report" ->
                     missing_docs_drift_report(context.docs_drift_report)
              [] rule_id = "missing_flow_docs" -> missing_flow_docs(context)
              [] OTHER -> invalid_template_reference(context)
    IN  IF found = {} THEN << >> ELSE << CHOOSE f \in found : TRUE >>

RECURSIVE EvaluateRules(_, _)
EvaluateRules(rules, context) ==
    IF rules = << >> THEN << >>
    ELSE EvaluateRule(Head(rules), context) \o EvaluateRules(Tail(rules), context)

\* ArchitectureCriticAgent.critique(run_dir, block_severity, enabled_rules):
\* the resolved rules are evaluated in order on the run's context, the
\* report holds their findings and whether they block.
Critique(rid, dir, block_severity, enabled_rules, repository) ==
    LET findings == EvaluateRules(resolve_enabled_rules(enabled_rules).rules,
                                  RuleContext(dir, repository))
    IN  [run_id |-> rid,
         block_severity |-> block_severity,
         findings |-> findings,
         blocked |-> Blocked({findings[k] : k \in DOMAIN findings}, block_severity)]

\* ---- the run directories the calls find
\* Outcomes of the loops of a run's figures: all accepted, all missed, or
\* the odd figures missed and the even ones accepted.
VerdictPatterns ==
    { [f \in FigureIds |-> "accepted"],
      [f \in FigureIds |-> "missed"],
      [f \in FigureIds |-> IF f % 2 = 1 THEN "missed" ELSE "accepted"] }

\* Element files a Figure Generator may leave: every element traced (as
\* GeneratorAgent writes them), half of them traced, no element at all, a
\* trace without an element list, and a trace that lists more traced
\* elements than element_metadata.json has entries.
FullyTraced == ElementFiles(2, << TRUE, TRUE >>)
ElementProfiles ==
    { FullyTraced,
      ElementFiles(2, << TRUE, FALSE >>),
      ElementFiles(0, << >>),
      ElementFiles(0, << TRUE, FALSE >>),
      ElementFiles(1, << TRUE, TRUE >>) }

DefaultElements == [f \in FigureIds |-> FullyTraced]

ElementPatterns ==
    { [f \in FigureIds |-> e] : e \in ElementProfiles }
    \cup { [f \in FigureIds |->
              IF f % 2 = 1 THEN ElementFiles(2, << TRUE, FALSE >>) ELSE FullyTraced] }

\* A run directory with the element files of its final directories and its
\* exports directory (created empty with the run); the average coverage is
\* the one inspect computes.
OpsDirectory(rid, p, cap, verdicts, stage, elements) ==
    CHOOSE dir \in
        { [base EXCEPT !.coverage =
              Aggregate(FigureSummaries(base, cap)).avg_traceability_coverage] :
            base \in { [elements |-> elements, exports |-> EmptyExportDir]
                       @@ RunDirectoryOf(rid, p, cap, verdicts, stage, None) } } : TRUE

GeneratedDirectories(rid) ==
    { OpsDirectory(rid, t[1], t[2], t[3], t[4], t[5]) :
        t \in { u \in Plans \X {0, 1, MaxIterations} \X VerdictPatterns
                      \X {"loop", "drift", "complete", "critiqued"} \X ElementPatterns :
                 /\ u[4] = "loop" => Len(u[1]) > 0 /\ u[2] >= 1
                 /\ u[4] = "critiqued" => Len(u[1]) > 0
                 /\ (u[2] = 0 \/ Len(u[1]) = 0 \/ u[4] = "loop") =>
                        u[3] = [f \in FigureIds |-> "accepted"]
                 /\ (u[2] = 0 \/ Len(u[1]) = 0 \/ u[4] \in {"loop", "drift"}) =>
                        u[5] = DefaultElements
                 /\ u[5] # DefaultElements =>
                        Len(u[1]) = MaxFigures /\ u[2] = MaxIterations
                 /\ u[4] = "critiqued" =>
                        u[5] \in {DefaultElements,
                                  [f \in FigureIds |-> ElementFiles(2, << TRUE, FALSE >>)]} } }

\* The longest plan, replayed to the cap with the odd figures missed.
ReferenceDirectory(rid, stage) ==
    OpsDirectory(rid, CHOOSE p \in Plans : Len(p) = MaxFigures, MaxIterations,
                 [f \in FigureIds |-> IF f % 2 = 1 THEN "missed" ELSE "accepted"],
                 stage, DefaultElements)

\* Run directories as later events leave them: after an export into the
\* run's exports directory, with a run.json that records only provenance
\* (no seed, no parameters), and with plan.json removed.
AlteredDirectories(rid) ==
    LET complete == ReferenceDirectory(rid, "complete")
        critiqued == ReferenceDirectory(rid, "critiqued")
        provenance == [run_id |-> rid, paper_path |-> "paper.md", created_at |-> "t",
                       config_hash |-> "h"]
    IN  { [done EXCEPT !.exports = Export(rid, done, done.exports, TRUE)] :
             done \in {complete} }
        \cup { [critiqued EXCEPT !.files["run.json"] = Some(provenance)],
               [complete EXCEPT !.files["run.json"] = None],
               [critiqued EXCEPT !.files["plan.json"] = None] }

CallDirectories(rid) == GeneratedDirectories(rid) \cup AlteredDirectories(rid)

\* ---- the calls
\* What the rules read outside the run directory.
Repositories ==
    { [flow_docs |-> "complete", valid_template_ids |-> {"method_flow"}],
      [flow_docs |-> "incomplete", valid_template_ids |-> {}],
      [flow_docs |-> "missing", valid_template_ids |-> {"other_flow"}] }

EnabledRuleSets ==
    { None,
      Some(<< "traceability_gap" >>),
      Some(<< "missing_plan", "empty_plan", "failed_figures" >>),
      Some(<< "traceability_gap", "no_such_rule" >>) }

FilterSets ==
    { Filters(t[1], t[2], t[3], t[4]) :
        t \in ({None} \cup {Some(f) : f \in FigureIds}) \X BOOLEAN
              \X {None, Some(60)}
              \X {None, Some(""), Some("Readability"), Some(" AESTHETICS ")} }

\* Mutant: the architecture report is written over the inspection snapshot.
arch_critique_output_file_Snapshot == "inspect.json"

\* arch_cfg.get("output_file", "architecture_critique.json")
arch_critique_output_file == "architecture_critique.json"
\* audit_cfg.get("output_file", "repro_audit.json")
repro_audit_output_file == "repro_audit.json"

\* What a call leaves alone besides the run root, the diff directory and
\* the output directory of export.
rerunFrame == <<configVars, callVars, run_id_1, run_id_2, localVars,
                runFiles, figures, events>>
callFrame == <<rerunFrame, docs>>

\* Orchestrator.inspect: the summary is returned, nothing is written.
InspectCall ==
    /\ pc = "ready"
    /\ \E rid \in RunIds, filters \in FilterSets :
          /\ call' = [op |-> "inspect", run_id |-> rid, filters |-> filters]
          /\ IF run_root[rid] = None
             THEN raised' = "NotFound" /\ result' = None
             ELSE /\ raised' = "none"
                  /\ result' = Some(InspectView(rid, Get(run_root[rid]),
                                                max_iterations, filters))
    /\ pc' = "returned"
    /\ UNCHANGED <<callFrame, run_root, diff_report, export_out>>

\* Mutant: the output directory is created before the run is looked up
\* (mkdir with parents=True creates the run directory on the way).
ExportNotFound_MkdirFirst(root, rid) ==
    [root EXCEPT ![rid] =
        Some([files |-> [f \in TopFiles |-> None],
              figures |-> [f \in FigureIds |-> None],
              coverage |-> None,
              elements |-> DefaultElements,
              exports |-> EmptyExportDir])]

\* raise FileNotFoundError before output_dir.mkdir: the run root export
\* leaves when the run has no directory.
ExportNotFound(root, rid) == root

\* Orchestrator.export: into the run's exports directory, or into the
\* output directory given.
ExportCall ==
    /\ pc = "ready"
    /\ \E rid \in RunIds, given \in BOOLEAN, png_ok \in BOOLEAN :
          /\ call' = [op |-> "export", run_id |-> rid, output_dir |-> given,
                      png_ok |-> png_ok]
          /\ IF run_root[rid] = None
             THEN /\ raised' = "NotFound"
                  /\ result' = None
                  /\ run_root' = ExportNotFound(run_root, rid)
                  /\ UNCHANGED export_out
             ELSE LET dir == Get(run_root[rid])
                  IN  /\ raised' = "none"
                      /\ result' = Some(IF given THEN "output_dir" ELSE "exports")
                      /\ IF given
                         THEN /\ export_out' =
                                    Some(Export(rid, dir, EmptyExportDir, png_ok))
                              /\ UNCHANGED run_root
                         ELSE /\ run_root' =
                                    [run_root EXCEPT ![rid] =
                                        Some([dir EXCEPT !.exports =
                                                 Export(rid, dir, dir.exports, png_ok)])]
                              /\ UNCHANGED export_out
    /\ pc' = "returned"
    /\ UNCHANGED <<callFrame, diff_report>>

\* Orchestrator.audit: the report is written to the run directory when
\* persist is set.
AuditCall ==
    /\ pc = "ready"
    /\ \E rid \in RunIds, mode \in {"soft", "hard"}, persist \in BOOLEAN,
          config_fingerprint \in {"h", "h2"} :
          /\ call' = [op |-> "audit", run_id |-> rid, mode |-> mode,
                      persist |-> persist, config_fingerprint |-> config_fingerprint]
          /\ IF run_root[rid] = None
             THEN raised' = "NotFound" /\ result' = None /\ UNCHANGED run_root
             ELSE LET dir == Get(run_root[rid])
                      report == ReproAuditReport(dir.files, mode, config_fingerprint)
                  IN  /\ raised' = "none"
                      /\ result' = Some(report)
                      /\ run_root' =
                            IF persist
                            THEN [run_root EXCEPT ![rid] =
                                     Some([dir EXCEPT !.files[repro_audit_output_file] =
                                              Some(report)])]
                            ELSE run_root
    /\ pc' = "returned"
    /\ UNCHANGED <<callFrame, diff_report, export_out>>

\* Orchestrator.critique_architecture: an unknown rule id is an error of
\* the critic; the report is written when persist is set.
CritiqueCall ==
    /\ pc = "ready"
    /\ \E rid \in RunIds, block_severity \in Severities,
          enabled_rules \in EnabledRuleSets, persist \in BOOLEAN,
          repository \in Repositories :
          /\ call' = [op |-> "critique_architecture", run_id |-> rid,
                      block_severity |-> block_severity,
                      enabled_rules |-> enabled_rules, persist |-> persist,
                      repository |-> repository]
          /\ IF run_root[rid] = None
             THEN raised' = "NotFound" /\ result' = None /\ UNCHANGED run_root
             ELSE IF resolve_enabled_rules(enabled_rules).error # "none"
             THEN /\ raised' = resolve_enabled_rules(enabled_rules).error
                  /\ result' = None
                  /\ UNCHANGED run_root
             ELSE LET dir == Get(run_root[rid])
                      report == Critique(rid, dir, block_severity, enabled_rules,
                                         repository)
                  IN  /\ raised' = "none"
                      /\ result' = Some(report)
                      /\ run_root' =
                            IF persist
                            THEN [run_root EXCEPT ![rid] =
                                     Some([dir EXCEPT !.files[arch_critique_output_file] =
                                              Some(report)])]
                            ELSE run_root
    /\ pc' = "returned"
    /\ UNCHANGED <<callFrame, diff_report, export_out>>

\* Orchestrator.diff on two run ids of the run root; the report is the
\* content of the diff directory.
DiffCall ==
    /\ pc = "ready"
    /\ \E rid_1 \in RunIds, rid_2 \in RunIds :
          /\ call' = [op |-> "diff", run_id |-> rid_1, run_id_2 |-> rid_2]
          /\ IF run_root[rid_1] = None \/ run_root[rid_2] = None
             THEN /\ raised' = "NotFound"
                  /\ result' = None
                  /\ UNCHANGED <<run_root, diff_report>>
             ELSE LET loaded == BuildInspect(BuildInspect(run_root, rid_1), rid_2)
                  IN  /\ raised' = "none"
                      /\ run_root' = loaded
                      /\ diff_report' = Some(DiffReport(loaded, rid_1, rid_2))
                      /\ result' = diff_report'
    /\ pc' = "returned"
    /\ UNCHANGED <<callFrame, export_out>>

\* The source run as rerun reads it.
SourceOf(rid, dir, paper_exists) ==
    [SourceRun(TRUE,
               IF dir.files["run.json"] # None THEN "object" ELSE "missing",
               IF dir.files["run.json"] # None THEN Get(dir.files["run.json"])
               ELSE NoMetadata,
               paper_exists,
               IF dir.files["plan.json"] # None THEN "list" ELSE "missing",
               IF dir.files["plan.json"] # None THEN Get(dir.files["plan.json"])
               ELSE << >>)
     EXCEPT !.run_id = rid]

\* The run directories the replay of a source run can leave under a new
\* run id: stopped in the loop or by the docs gate, or returned; run.json
\* carries the rerun tags.
Replays(new_id, src) ==
    LET cap == ReplayValue(src.meta, SelfConfig, "max_iterations")
        mode == ReplayValue(src.meta, SelfConfig, "arch_critique_mode")
        p == LoadPlan(src.plan_data)
        stages == {"drift", IF mode = "inline" THEN "critiqued" ELSE "complete"}
                  \cup (IF cap >= 1 THEN {"loop"} ELSE {})
        made == { OpsDirectory(new_id, p, cap, [f \in FigureIds |-> v], stage,
                               DefaultElements) :
                     v \in {"accepted"}, stage \in stages }
    IN  { [d EXCEPT !.files["run.json"] =
              Some(RerunOverrides(src.run_id) @@ Get(d.files["run.json"]))] : d \in made }

\* A replay with the documents its drift check found ("unread" when it
\* stopped before the check); a replay stopped by the docs gate carries the
\* report of the check as the replaying orchestrator is configured.
ReplayOutcomes(new_id, src) ==
    UNION { IF d.files["docs_drift_report.json"] = None
            THEN {[dir |-> d, found |-> "unread"]}
            ELSE IF Get(d.files["docs_drift_report.json"]).drift_detected
            THEN {[dir |-> [d EXCEPT !.files["docs_drift_report.json"] =
                               Some(DocsReport(found, ~docs_auto_regen_on_generate))],
                   found |-> found] : found \in {"drifted", "missing"}}
            ELSE {[dir |-> d, found |-> "clean"]} :
            d \in Replays(new_id, src) }

\* Mutant: the replay writes into the directory of the source run.
ReplayRunId_Source(source_run_id, existing) == source_run_id

\* run_id = self._new_run_id() of the replay's _execute_generation.
ReplayRunId(source_run_id, existing) == new_run_id(existing)

\* Orchestrator.rerun: the checks, then the replay creates a new run
\* directory; the source run is only read. The replay's drift check may
\* rewrite the documents of the repository.
RerunCall ==
    /\ pc = "ready"
    /\ \E rid \in RunIds, paper_exists \in BOOLEAN :
          /\ call' = [op |-> "rerun", run_id |-> rid, paper_exists |-> paper_exists]
          /\ IF run_root[rid] = None
             THEN raised' = "NotFound" /\ result' = None /\ UNCHANGED <<run_root, docs>>
             ELSE LET src == SourceOf(rid, Get(run_root[rid]), paper_exists)
                  IN  IF RerunRejection(src) # "none"
                      THEN /\ raised' = RerunRejection(src)
                           /\ result' = None
                           /\ UNCHANGED <<run_root, docs>>
                      ELSE /\ \E free \in RunIds : run_root[free] = None
                           /\ LET new_id == ReplayRunId(rid, {r \in RunIds : run_root[r] # None})
                              IN  \E replay \in ReplayOutcomes(new_id, src) :
                                     /\ run_root' = [run_root EXCEPT ![new_id] = Some(replay.dir)]
                                     /\ docs' = IF replay.found = "unread" THEN docs
                                                ELSE DocsAfter(replay.found,
                                                               ~docs_auto_regen_on_generate)
                                     /\ raised' = IF replay.dir.files["repro_audit.json"] # None
                                                  THEN "none" ELSE "GateFailure"
                                     /\ result' = IF replay.dir.files["repro_audit.json"] # None
                                                  THEN Some(new_id) ELSE None
    /\ pc' = "returned"
    /\ UNCHANGED <<rerunFrame, diff_report, export_out>>

\* An orchestrator built with defaults is given one call on a run root
\* that holds up to two run directories.
CallInit ==
    /\ NoManifest
    /\ NoLab
    /\ NoPending
    /\ max_iterations = MaxIterations
    /\ arch_critique_mode = "inline"
    /\ arch_critique_block_severity = "critical"
    /\ repro_audit_mode = "soft"
    /\ docs_auto_regen_on_generate = TRUE
    /\ quality_threshold = 75
    /\ dimension_threshold = 55
    /\ template_pack = "expanded_v1"
    /\ plan = << >>
    /\ op = "call"
    /\ caller = SelfConfig
    /\ source_run = NoSourceRun
    /\ plan_override = None
    /\ metadata_overrides = None
    /\ run_id = None
    /\ planner_calls = 0
    /\ run_root \in {[r \in RunIds |-> None]}
                    \cup {[r \in RunIds |-> IF r = "run-a" THEN Some(a) ELSE None] :
                             a \in CallDirectories("run-a")}
                    \cup {[r \in RunIds |-> IF r = "run-a" THEN Some(a)
                                            ELSE Some(ReferenceDirectory("run-b", "complete"))] :
                             a \in AlteredDirectories("run-a")
                                      \cup {ReferenceDirectory("run-a", "complete")}}
    /\ run_id_1 = "run-a"
    /\ run_id_2 = "run-a"
    /\ diff_report = None
    /\ call = NoCall
    /\ result = None
    /\ export_out = None
    /\ docs = "unread"
    /\ pc = "ready"
    /\ raised = "none"
    /\ figure_index = 0
    /\ iteration = 0
    /\ accepted = FALSE
    /\ last_report = None
    /\ critique_feedback = None
    /\ candidate = None
    /\ captions = <<>>
    /\ traceability_records = <<>>
    /\ runFiles = [f \in TopFiles |-> None]
    /\ figures = [f \in FigureIds |-> None]
    /\ events = <<>>

CallNext ==
    \/ InspectCall
    \/ ExportCall
    \/ AuditCall
    \/ CritiqueCall
    \/ DiffCall
    \/ RerunCall

CallSpec == CallInit /\ [][CallNext]_vars

\* =================================================================== claims
PlanIds == {plan[i].figure_id : i \in DOMAIN plan}
PlanIndex(f) == CHOOSE i \in DOMAIN plan : plan[i].figure_id = f
Returned == pc = "done"
FigureDir(f) == Get(figures[f])
FinalDir(f) == IF figures[f] = None THEN None ELSE FigureDir(f).final
IterDir(f, i) == IF figures[f] = None THEN None ELSE FigureDir(f).iters[i]
CritiqueFile(f, i) == IF IterDir(f, i) = None THEN None ELSE Get(IterDir(f, i)).critique
CallsOf(kind, f) ==
    {k \in DOMAIN events : events[k].kind = kind /\ events[k].figure = f}
CritiqueFiles(f) == {i \in IterationSlots : CritiqueFile(f, i) # None}
PassedRounds(f) == {i \in CritiqueFiles(f) : Get(CritiqueFile(f, i)).passed}
\* The figure's loop and its terminal step are over.
Finished(f) == \E k \in DOMAIN captions : captions[k] = f
\* The three files of iteration i, as final/ holds them when copied from it.
CopyOf(f, i) ==
    Some([svg |-> Get(Get(IterDir(f, i)).svg),
          element_metadata |-> Get(Get(IterDir(f, i)).element_metadata),
          traceability |-> Get(Get(IterDir(f, i)).traceability)])
GeneratedRounds(f) ==
    {i \in IterationSlots : IterDir(f, i) # None /\ Get(IterDir(f, i)).svg # None}
Highest(S) == CHOOSE m \in S : \A x \in S : x <= m
SummaryOf(snapshot, f) ==
    {snapshot.figures[k] : k \in {j \in DOMAIN snapshot.figures :
                                     snapshot.figures[j].figure_id = f}}

\* C1: after generate returns a run id, every figure id of plan.json has a
\* figures/<id>/final/ directory with its three files, for every critic
\* behaviour and every configured max_iterations.
C1_EveryPlannedFigureHasFinal ==
    Returned => \A f \in PlanIds : FinalDir(f) # None

\* C2: in every reachable state, for every figure, the number of generator
\* calls and the number of persisted critique.json files is at most
\* max_iterations, and inspect (on demand and in the snapshot) reports
\* iterations_attempted <= the max_iterations recorded in run.json.
C2_IterationsWithinCap ==
    /\ \A f \in FigureIds :
          /\ Cardinality(CallsOf("generate", f)) <= max_iterations
          /\ Cardinality(CritiqueFiles(f)) <= max_iterations
    /\ runFiles["run.json"] # None =>
          LET summary == Inspect(runFiles, figures, max_iterations)
          IN  \A k \in DOMAIN summary.figures :
                 summary.figures[k].iterations_attempted
                    <= Get(runFiles["run.json"]).max_iterations
    /\ runFiles["inspect.json"] # None =>
          LET snapshot == Get(runFiles["inspect.json"])
          IN  \A k \in DOMAIN snapshot.figures :
                 snapshot.figures[k].iterations_attempted
                    <= Get(runFiles["run.json"]).max_iterations

C2_Witness ==
    /\ Returned
    /\ max_iterations >= 2
    /\ \E f \in PlanIds :
          /\ Cardinality(CallsOf("generate", f)) = max_iterations
          /\ \E sm \in SummaryOf(Get(runFiles["inspect.json"]), f) :
                sm.iterations_attempted = max_iterations /\ sm.max_iterations_hit

\* C3: once the critic returns passed=true for round i of a figure, no
\* generator or critic call is made for that figure in a later round and the
\* final artifacts are the copies of round i's artifacts; the passed flag
\* alone decides, whatever the score.
C3_PassStopsFigure ==
    \A f \in FigureIds : \A i \in PassedRounds(f) :
        /\ \A k \in CallsOf("generate", f) \cup CallsOf("critique", f) :
              events[k].iteration <= i
        /\ \A j \in IterationSlots : j > i => IterDir(f, j) = None
        /\ FinalDir(f) = CopyOf(f, i)

C3_Witness ==
    /\ Returned
    /\ \E f \in PlanIds : \E i \in PassedRounds(f) :
          /\ i < max_iterations
          /\ Get(CritiqueFile(f, i)).score < Get(CritiqueFile(f, i)).threshold
          /\ FinalDir(f) = CopyOf(f, i)

\* C4: a figure whose loop ended without a passing round has the copies of
\* its last attempted round (the highest generated iteration) as final
\* artifacts and is recorded as not accepted.
C4_FallbackIsLastRound ==
    \A f \in FigureIds :
        (Finished(f) /\ PassedRounds(f) = {} /\ GeneratedRounds(f) # {}) =>
            /\ FinalDir(f) = CopyOf(f, Highest(GeneratedRounds(f)))
            /\ \A sm \in SummaryOf(Inspect(runFiles, figures, max_iterations), f) :
                  ~sm.accepted /\ sm.final_passed = Some(FALSE)
            /\ runFiles["inspect.json"] # None =>
                  \A sm \in SummaryOf(Get(runFiles["inspect.json"]), f) : ~sm.accepted

C4_Witness ==
    /\ Returned
    /\ max_iterations >= 2
    /\ \E f \in PlanIds :
          /\ PassedRounds(f) = {}
          /\ Cardinality(GeneratedRounds(f)) = max_iterations
          /\ FinalDir(f) = CopyOf(f, max_iterations)

\* C5: the generator call of round 1 of every figure receives null feedback
\* (also after a previous figure whose last critique failed), and the call
\* of every round i > 1 receives exactly {previous_score, issues,
\* recommendations, failed_dimensions} of round i-1's critique of the same
\* figure, so a dimension failed in round i-1 is in its failed_dimensions.
C5_FeedbackIsPreviousCritique ==
    \A k \in DOMAIN events :
        events[k].kind = "generate" =>
            LET f == events[k].figure
                i == events[k].iteration
            IN  IF i = 1
                THEN events[k].feedback = None
                ELSE /\ CritiqueFile(f, i - 1) # None
                     /\ events[k].feedback =
                           Some([previous_score |-> Get(CritiqueFile(f, i - 1)).score,
                                 issues |-> Get(CritiqueFile(f, i - 1)).issues,
                                 recommendations |-> Get(CritiqueFile(f, i - 1)).recommendations,
                                 failed_dimensions |->
                                     Get(CritiqueFile(f, i - 1)).failed_dimensions])
                     /\ Get(CritiqueFile(f, i - 1)).failed_dimensions
                           \subseteq Get(events[k].feedback).failed_dimensions

C5_Witness ==
    /\ Len(plan) = 2
    /\ PassedRounds(plan[1].figure_id) = {}
    /\ Finished(plan[1].figure_id)
    /\ \E k \in CallsOf("generate", plan[2].figure_id) :
          /\ events[k].iteration = 1
          /\ events[k].feedback = None
    /\ \E k \in CallsOf("generate", plan[2].figure_id) :
          /\ events[k].iteration = 2
          /\ "readability" \in Get(events[k].feedback).failed_dimensions
    /\ PassedRounds(plan[2].figure_id) = {2}

\* A figure whose loop ended without a passing round.
Missed(f) == Finished(f) /\ PassedRounds(f) = {}
CollaboratorOrOtherGate ==
    {"GenerationFailure", "CritiqueFailure", "DocsDrift", "ReproAuditFailed"}

\* C6: a figure that never passes critique does not by itself abort
\* generate: with no drift and no hard-mode audit failure generate returns a
\* run id for every architecture critique mode and every block severity.
\* Stated for the runs whose architecture report holds no finding but the
\* failed figures.
C6_MissNeverBlocks ==
    (/\ \E f \in PlanIds : Missed(f) /\ Cardinality(CritiqueFiles(f)) = max_iterations
     /\ max_iterations >= 1
     /\ runFiles["architecture_critique.json"] # None
     /\ \A fd \in Get(runFiles["architecture_critique.json"]).findings :
           fd.finding_id = "failed_figures")
    => raised # "ArchitectureBlocked"

\* C6 as amended: with architecture critique off, or inline with block
\* severity critical, a run with a figure that never passed aborts only on
\* a collaborator error, documentation drift or a hard-mode audit failure,
\* and when generate returns the figure is reported as not accepted and
\* counted in failed_count; inline with block severity info, minor or major,
\* such a run never returns.
C6_MissBlocksOnlyBelowCritical ==
    (\E f \in PlanIds : Missed(f)) =>
        /\ (arch_critique_mode = "off" \/ arch_critique_block_severity = "critical")
              => (pc = "aborted" => raised \in CollaboratorOrOtherGate)
        /\ Returned =>
              /\ arch_critique_mode = "inline" => arch_critique_block_severity = "critical"
              /\ Get(runFiles["inspect.json"]).aggregate.failed_count >= 1
              /\ \A f \in PlanIds : Missed(f) =>
                    /\ SummaryOf(Get(runFiles["inspect.json"]), f) # {}
                    /\ \A sm \in SummaryOf(Get(runFiles["inspect.json"]), f) : ~sm.accepted

C6_Witness ==
    /\ Returned
    /\ arch_critique_mode = "inline"
    /\ arch_critique_block_severity = "critical"
    /\ max_iterations >= 1
    /\ \E f \in PlanIds : Missed(f) /\ FinalDir(f) # None
    /\ Finding("failed_figures", "major")
          \in Get(runFiles["architecture_critique.json"]).findings

FinalizationFiles == {"captions.txt", "traceability.json", "inspect.json",
                      "docs_drift_report.json", "architecture_critique.json",
                      "repro_audit.json"}

\* C7: if the generator fails on the first iteration of a figure, the call
\* is not retried, no generator or critic call follows for this or a later
\* figure, no finalization stage runs and the figure gets no final
\* directory: generate has failed.
C7_FirstRoundFailureIsFatal ==
    \A k \in DOMAIN events :
        (events[k].kind = "generate" /\ ~events[k].ok /\ events[k].iteration = 1) =>
            /\ k = Len(events)
            /\ pc = "aborted"
            /\ raised = "GenerationFailure"
            /\ Cardinality({j \in CallsOf("generate", events[k].figure) :
                               events[j].iteration = 1}) = 1
            /\ \A name \in FinalizationFiles : runFiles[name] = None
            /\ FinalDir(events[k].figure) = None
            /\ \A j \in DOMAIN plan :
                  j > PlanIndex(events[k].figure) => figures[plan[j].figure_id] = None

C7_Witness ==
    /\ Len(plan) = 2
    /\ FinalDir(plan[1].figure_id) # None
    /\ pc = "aborted"
    /\ events[Len(events)].kind = "generate"
    /\ events[Len(events)].figure = plan[2].figure_id
    /\ events[Len(events)].iteration = 1
    /\ ~events[Len(events)].ok

LoopKinds == {"generate", "critique", "fallback"}
KindOrder == [generate |-> 1, critique |-> 2, fallback |-> 3]
StageOrder == [inspect |-> 1, docs |-> 2, architecture |-> 3, audit |-> 4]

\* e happens strictly before g in the order the run prescribes: figures in
\* plan order, rounds ascending, generator before critic before fallback,
\* then the stages inspect, docs, architecture, audit. The order is
\* transitive, so a log is ordered when its neighbours are.
Precedes(e, g) ==
    IF e.kind \in LoopKinds
    THEN IF g.kind \in LoopKinds
         THEN \/ PlanIndex(e.figure) < PlanIndex(g.figure)
              \/ /\ e.figure = g.figure
                 /\ e.iteration < g.iteration
              \/ /\ e.figure = g.figure
                 /\ e.iteration = g.iteration
                 /\ KindOrder[e.kind] < KindOrder[g.kind]
         ELSE TRUE
    ELSE /\ g.kind \notin LoopKinds
         /\ StageOrder[e.kind] < StageOrder[g.kind]

\* C8: events occur in order without overlap: figures one at a time in plan
\* order, all rounds of a figure before the next figure starts, the
\* finalization stages only after the last figure is finalized, in the order
\* inspection snapshot, documentation drift check, architecture critique
\* (inline mode only), reproducibility audit; no generator or critic call
\* after the inspection snapshot is written.
C8_SequentialOrder ==
    /\ \A k \in 1..(Len(events) - 1) : Precedes(events[k], events[k + 1])
    /\ \A k \in DOMAIN events :
          /\ events[k].kind = "architecture" => arch_critique_mode = "inline"
          /\ events[k].kind \notin LoopKinds =>
                /\ \A f \in PlanIds : Finished(f)
                /\ Len(captions) = Len(plan)
    /\ \A f \in FigureIds :
          figures[f] # None =>
              \A j \in DOMAIN plan : j < PlanIndex(f) => Finished(plan[j].figure_id)
    /\ runFiles["inspect.json"] # None =>
          /\ pc \notin {"figure", "generate", "critique", "figure_end"}
          /\ \E k \in DOMAIN events : events[k].kind = "inspect"
    /\ runFiles["architecture_critique.json"] # None => arch_critique_mode = "inline"

C8_Witness ==
    /\ Returned
    /\ Len(plan) = 2
    /\ arch_critique_mode = "inline"
    /\ Cardinality(CallsOf("generate", plan[1].figure_id)) = 2
    /\ Cardinality(CallsOf("generate", plan[2].figure_id)) = 2
    /\ CallsOf("fallback", plan[1].figure_id) # {}
    /\ events[Len(events)].kind = "audit"
    /\ events[Len(events) - 1].kind = "architecture"

\* C9: whenever a finalization stage starts, the output file of every
\* earlier stage exists, in both architecture critique modes: inspect.json
\* at the drift check, docs_drift_report.json at the architecture critique,
\* all three of inspect.json, docs_drift_report.json and
\* architecture_critique.json at the reproducibility audit; after a
\* successful generate all seven files exist.
C9_EarlierStageOutputsExist ==
    /\ pc = "docs" => runFiles["inspect.json"] # None
    /\ pc = "architecture" => runFiles["docs_drift_report.json"] # None
    /\ pc = "audit" =>
          /\ runFiles["inspect.json"] # None
          /\ runFiles["docs_drift_report.json"] # None
          /\ runFiles["architecture_critique.json"] # None
    /\ Returned =>
          \A name \in {"plan.json", "traceability.json", "captions.txt",
                       "inspect.json", "docs_drift_report.json",
                       "architecture_critique.json", "repro_audit.json"} :
              runFiles[name] # None

\* C10: if the drift check reports drift_detected=true, generate raises a
\* gate failure whether or not the documents were regenerated;
\* docs_drift_report.json has been written with drift_detected=true and
\* neither architecture_critique.json nor repro_audit.json is written.
C10_DriftIsFatal ==
    /\ (/\ runFiles["docs_drift_report.json"] # None
        /\ Get(runFiles["docs_drift_report.json"]).drift_detected)
       => /\ pc = "aborted"
          /\ raised = "DocsDrift"
          /\ runFiles["architecture_critique.json"] = None
          /\ runFiles["repro_audit.json"] = None
          /\ \A k \in DOMAIN events : events[k].kind \notin {"architecture", "audit"}
    /\ raised = "DocsDrift" =>
          /\ runFiles["docs_drift_report.json"] # None
          /\ Get(runFiles["docs_drift_report.json"]).drift_detected

C10_Witness ==
    /\ raised = "DocsDrift"
    /\ docs_auto_regen_on_generate
    /\ Get(runFiles["docs_drift_report.json"]).written
    /\ docs = "clean"
    /\ runFiles["inspect.json"] # None

StageRan(kind) == \E k \in DOMAIN events : events[k].kind = kind

\* C11: with architecture critique mode inline the critique runs only after
\* the docs gate passed and its report is persisted; a blocked report makes
\* generate raise and the reproducibility audit is never run. With mode off
\* the critic is never invoked, writes no report and never fails the run.
C11_ArchitectureGate ==
    /\ StageRan("architecture") =>
          /\ arch_critique_mode = "inline"
          /\ runFiles["docs_drift_report.json"] # None
          /\ ~Get(runFiles["docs_drift_report.json"]).drift_detected
          /\ runFiles["architecture_critique.json"] # None
    /\ (arch_critique_mode = "inline" /\ (pc \in {"audit", "done"} \/ StageRan("audit"))) =>
          /\ StageRan("architecture")
          /\ ~Get(runFiles["architecture_critique.json"]).blocked
    /\ (/\ runFiles["architecture_critique.json"] # None
        /\ Get(runFiles["architecture_critique.json"]).blocked) =>
          /\ pc = "aborted"
          /\ raised = "ArchitectureBlocked"
          /\ ~StageRan("audit")
          /\ runFiles["repro_audit.json"] = None
    /\ arch_critique_mode = "off" =>
          /\ ~StageRan("architecture")
          /\ runFiles["architecture_critique.json"] = None
          /\ raised # "ArchitectureBlocked"

\* A run whose inline critique, after a clean docs gate, blocked it.
C11_Witness ==
    /\ arch_critique_mode = "inline"
    /\ runFiles["docs_drift_report.json"] # None
    /\ ~Get(runFiles["docs_drift_report.json"]).drift_detected
    /\ runFiles["architecture_critique.json"] # None
    /\ Get(runFiles["architecture_critique.json"]).blocked
    /\ raised = "ArchitectureBlocked"

\* C12: once generate ran the reproducibility audit, repro_audit.json holds
\* its report in both modes; in hard mode a report with passed = false
\* makes generate raise, in soft mode generate returns the run id whatever
\* the report says.
C12_AuditGate ==
    StageRan("audit") =>
        /\ runFiles["repro_audit.json"] # None
        /\ Get(runFiles["repro_audit.json"]).mode = repro_audit_mode
        /\ Get(runFiles["repro_audit.json"]).passed
              = (ReproAuditReport([runFiles EXCEPT !["repro_audit.json"] = None],
                                  repro_audit_mode, "h").required_failed = {})
        /\ repro_audit_mode = "soft" => Returned /\ raised = "none"
        /\ repro_audit_mode = "hard" =>
              IF Get(runFiles["repro_audit.json"]).passed
              THEN Returned /\ raised = "none"
              ELSE pc = "aborted" /\ raised = "ReproAuditFailed"

\* A soft-mode run that returned although its audit failed.
C12_Witness ==
    /\ repro_audit_mode = "soft"
    /\ StageRan("audit")
    /\ ~Get(runFiles["repro_audit.json"]).passed
    /\ Returned

\* ------------------------------------------------------- claims on rerun
Replaying == op = "rerun" /\ runFiles["run.json"] # None
SourcePlanIds == [i \in DOMAIN source_run.plan_data |-> source_run.plan_data[i].figure_id]
GeneratorCalls == SelectSeq(events, LAMBDA e : e.kind = "generate")
FiguresCalled == {GeneratorCalls[k].figure : k \in DOMAIN GeneratorCalls}
SourcePosition(f) == CHOOSE i \in DOMAIN SourcePlanIds : SourcePlanIds[i] = f

\* C13: the run rerun creates has a plan.json equal to the source run's
\* plan.json, entry for entry and field for field, in the same order; and
\* loading a persisted plan and writing it again gives the same list.
C13_RerunPlanRoundTrip ==
    /\ Replaying => Get(runFiles["plan.json"]) = source_run.plan_data
    /\ (op = "rerun" /\ source_run.plan_json = "list") =>
          write_plan(LoadPlan(source_run.plan_data)) = source_run.plan_data

\* A replay of a plan of several figures, one of them with source spans.
C13_Witness ==
    /\ Replaying
    /\ Len(Get(runFiles["plan.json"])) >= 2
    /\ \E i \in DOMAIN source_run.plan_data :
          Len(source_run.plan_data[i].source_spans) > 0
    /\ Returned

\* C14: during rerun the Plan Source is never invoked, and when rerun
\* returns the generator has been called for exactly the figure ids of the
\* persisted plan, in persisted order.
C14_GeneratorCalledForPersistedPlan ==
    /\ op = "rerun" => planner_calls = 0
    /\ (op = "rerun" /\ Returned) =>
          /\ FiguresCalled = {SourcePlanIds[i] : i \in DOMAIN SourcePlanIds}
          /\ \A j, k \in DOMAIN GeneratorCalls :
                j < k => SourcePosition(GeneratorCalls[j].figure)
                            <= SourcePosition(GeneratorCalls[k].figure)

\* The conditions under which rerun is to reject the request.
MustReject(src) ==
    \/ ~src.exists
    \/ src.run_json # "object"
    \/ src.plan_json # "list"
    \/ Len(src.plan_data) = 0

NothingCreated ==
    /\ run_id = None
    /\ \A f \in TopFiles : runFiles[f] = None
    /\ \A f \in FigureIds : figures[f] = None
    /\ events = << >>
    /\ planner_calls = 0

\* C15: when the source run directory is missing, run.json is missing or
\* not an object, plan.json is missing or not a list, or the plan has no
\* entries, rerun raises, creates no run directory and calls no generator.
C15_RerunRejects ==
    (op = "rerun" /\ pc # "rerun" /\ MustReject(source_run)) =>
        /\ pc = "aborted"
        /\ raised \in {"NotFound", "RerunRejected"}
        /\ NothingCreated

\* A rerun rejected for a plan.json that is an empty list.
C15_Witness ==
    /\ op = "rerun"
    /\ source_run.exists /\ source_run.run_json = "object"
    /\ source_run.plan_json = "list" /\ Len(source_run.plan_data) = 0
    /\ raised = "RerunRejected"

\* C16: the run rerun creates has an id other than the source run's and a
\* run.json with rerun_of equal to the source run id; the run.json of a run
\* created by generate directly has no rerun_of field.
C16_RerunTagged ==
    runFiles["run.json"] # None =>
        LET meta == Get(runFiles["run.json"])
        IN  /\ meta.run_id = Get(run_id)
            /\ ("rerun_of" \in DOMAIN meta) <=> (op = "rerun")
            /\ op = "rerun" =>
                  /\ meta.rerun_of = source_run.run_id
                  /\ meta.run_id # source_run.run_id

\* A replay that returned its run id.
C16_Witness ==
    /\ Replaying
    /\ Returned
    /\ Get(runFiles["run.json"]).rerun_of = "run-a"

\* C17: the replay runs with the source run's recorded parameters, except
\* for the parameters the caller supplied explicitly, for which the
\* caller's value is used.
C17_CallerSuppliedWins ==
    Replaying =>
        \A key \in ConfigKeys :
            SelfConfig[key] = IF key \in caller.supplied \/ key \notin DOMAIN source_run.meta
                              THEN caller[key]
                              ELSE source_run.meta[key]

\* -------------------------------------------------------- claims on diff
Diffed == diff_report # None
Report == Get(diff_report)
Dir1 == Get(run_root[run_id_1])
Dir2 == Get(run_root[run_id_2])
Snapshot1 == Get(Dir1.files["inspect.json"])
Snapshot2 == Get(Dir2.files["inspect.json"])
IsZero(d) == d # None /\ Get(d).num = 0
AverageMetrics == {"avg_final_score", "avg_traceability_coverage"}

\* C18 as stated: a run diffed against itself has no changed figure, no
\* changed artifact, and a delta of zero for accepted_count,
\* avg_final_score and avg_traceability_coverage.
C18_SelfDiffAllZero ==
    (Diffed /\ run_id_1 = run_id_2) =>
        /\ Report.changed_figures = << >>
        /\ Report.changed_artifacts = << >>
        /\ \A m \in {"accepted_count"} \cup AverageMetrics : IsZero(Report.metrics[m].delta)

\* C18, amended: a run diffed against itself has no changed figure, no
\* changed artifact and a delta of zero for accepted_count; the delta of an
\* average is zero when the run has that average and undefined when it has
\* not (no figure with a critique score, no figure with final elements).
C18_SelfDiffZeroOrUndefined ==
    (Diffed /\ run_id_1 = run_id_2) =>
        /\ Report.changed_figures = << >>
        /\ Report.changed_artifacts = << >>
        /\ Report.summary.changed_figure_count = 0
        /\ Report.summary.changed_artifact_count = 0
        /\ IsZero(Report.metrics.accepted_count.delta)
        /\ \A m \in AverageMetrics :
              IF Report.metrics[m].run_1 = None
              THEN Report.metrics[m].delta = None
              ELSE IsZero(Report.metrics[m].delta)

\* A run of two scored figures diffed against itself.
C18_Witness ==
    /\ Diffed /\ run_id_1 = run_id_2
    /\ Len(Snapshot1.figures) >= 2
    /\ Report.metrics.avg_final_score.run_1 # None
    /\ Report.metrics.avg_traceability_coverage.run_1 # None

ChangeEntries(f) ==
    {k \in DOMAIN Report.changed_figures : Report.changed_figures[k].figure_id = f}
Changes(f) == {Report.changed_figures[k].change : k \in ChangeEntries(f)}
FinalSvg(dir, f) ==
    IF dir.figures[f] = None THEN None
    ELSE IF Get(dir.figures[f]).final = None THEN None
    ELSE Some(Get(Get(dir.figures[f]).final).svg)
FigureDiffers(f) ==
    \/ by_id(Snapshot1, f).final_score # by_id(Snapshot2, f).final_score
    \/ by_id(Snapshot1, f).final_passed # by_id(Snapshot2, f).final_passed
    \/ FinalSvg(Dir1, f) # FinalSvg(Dir2, f)

\* C19: diff lists every figure id of the two snapshots at most once: an
\* id only in run 2 as added_in_run_2, an id only in run 1 as
\* removed_in_run_2, an id in both as modified exactly when the final
\* score, the final pass state or the final figure.svg differs, and not at
\* all when the three are equal.
C19_FigureClassification ==
    Diffed =>
        \A f \in FigureIds :
            /\ Cardinality(ChangeEntries(f)) <= 1
            /\ IF f \notin FigureIdsOf(Snapshot1) \cup FigureIdsOf(Snapshot2)
               THEN Changes(f) = {}
               ELSE IF f \notin FigureIdsOf(Snapshot1)
               THEN Changes(f) = {"added_in_run_2"}
               ELSE IF f \notin FigureIdsOf(Snapshot2)
               THEN Changes(f) = {"removed_in_run_2"}
               ELSE Changes(f) = IF FigureDiffers(f) THEN {"modified"} ELSE {}

\* A diff with a figure that differs in its rendered artifact only, next
\* to a figure of run 2 that run 1 does not have.
C19_Witness ==
    /\ Diffed
    /\ \E f \in FigureIdsOf(Snapshot1) \cap FigureIdsOf(Snapshot2) :
          /\ Changes(f) = {"modified"}
          /\ by_id(Snapshot1, f).final_score = by_id(Snapshot2, f).final_score
          /\ by_id(Snapshot1, f).final_passed = by_id(Snapshot2, f).final_passed
    /\ \E f \in FigureIds : Changes(f) = {"added_in_run_2"}

ArtifactNames == {JsonArtifactNames[k] : k \in DOMAIN JsonArtifactNames}
Listed == {Report.changed_artifacts[k] : k \in DOMAIN Report.changed_artifacts}

\* C20: changed_artifacts holds, once each, exactly the top-level *.json
\* names that exist in only one of the two run directories or exist in
\* both with different text.
C20_ChangedArtifacts ==
    Diffed =>
        /\ Cardinality(Listed) = Len(Report.changed_artifacts)
        /\ Listed =
              {n \in ArtifactNames :
                 \/ (Dir1.files[n] = None) # (Dir2.files[n] = None)
                 \/ /\ Dir1.files[n] # None
                    /\ Dir2.files[n] # None
                    /\ FileText(Dir1, run_id_1, n) # FileText(Dir2, run_id_2, n)}

\* A diff of two runs of which only one has an audit report, both with the
\* same sections.json.
C20_Witness ==
    /\ Diffed
    /\ run_id_1 # run_id_2
    /\ "repro_audit.json" \in Listed
    /\ Dir1.files["repro_audit.json"] = None
    /\ "plan.json" \in Listed
    /\ "sections.json" \notin Listed

\* ---- C21
\* C21 (as stated): diff has no side effect on the source runs: no step
\* of diff changes the content of a run directory, also for runs that have
\* no inspect.json.
C21_DiffLeavesRunsUnchanged == [][run_root' = run_root]_vars

\* C21 (amended): diff changes nothing of a run directory except that it
\* writes inspect.json into a run among its two arguments that had none;
\* the figure directories, every other file and an existing inspect.json
\* stay as they were, and no run directory appears or disappears.
C21_DiffOnlyBuildsMissingSnapshot ==
    [][\A r \in RunIds :
          /\ (run_root[r] = None) = (run_root'[r] = None)
          /\ run_root[r] # None =>
                LET before == Get(run_root[r])
                    after == Get(run_root'[r])
                IN  /\ after.figures = before.figures
                    /\ \A f \in TopFiles \ {"inspect.json"} :
                          after.files[f] = before.files[f]
                    /\ before.files["inspect.json"] # None =>
                          after.files["inspect.json"] = before.files["inspect.json"]
                    /\ after.files["inspect.json"] # before.files["inspect.json"] =>
                          r \in {run_id_1, run_id_2}]_vars

\* diff returned after building the snapshot of a run that stopped in its
\* loop (no captions, no snapshot of its own) next to a run that had one.
C21_Witness ==
    /\ Diffed
    /\ run_id_1 # run_id_2
    /\ Dir1.files["captions.txt"] = None
    /\ Dir1.files["inspect.json"] # None
    /\ Dir2.files["captions.txt"] # None
    /\ Get(Dir2.files["inspect.json"]).aggregate.failed_count > 0

\* ------------------------------------------ claims on calls on the run root
Called == pc = "returned"
CalledOn == Get(run_root[call.run_id])
\* generate or rerun wrote the audit report, its last file.
Finalized(dir) == dir.files["repro_audit.json"] # None
\* The files of a run directory a step changed.
ChangedFiles(before, after) == {f \in TopFiles : after.files[f] # before.files[f]}
OwnReport(f, operation) ==
    \/ f = "repro_audit.json" /\ operation = "audit"
    \/ f = "architecture_critique.json" /\ operation = "critique_architecture"

\* ---- C22
\* C22 (as stated): once a run is finalized, no call of inspect, export,
\* diff, rerun, audit or critique_architecture changes a file of its
\* directory, except that audit overwrites the audit report and
\* critique_architecture the architecture report.
C22_FinalizedRunsNeverChange ==
    [][\A r \in RunIds :
          (run_root[r] # None /\ Finalized(Get(run_root[r]))) =>
             /\ run_root'[r] # None
             /\ Get(run_root'[r]).figures = Get(run_root[r]).figures
             /\ Get(run_root'[r]).elements = Get(run_root[r]).elements
             /\ Get(run_root'[r]).exports = Get(run_root[r]).exports
             /\ \A f \in ChangedFiles(Get(run_root[r]), Get(run_root'[r])) :
                   OwnReport(f, call'.op)]_vars

\* C22 (amended): once a run is finalized, the calls change nothing of its
\* directory outside its exports subdirectory, except that audit
\* overwrites the audit report and critique_architecture the architecture
\* report, each on the run it is called on; the exports subdirectory is
\* changed only by export called on that run without an output directory.
C22_FinalizedRunsChangeOnlyReportsAndExports ==
    [][\A r \in RunIds :
          (run_root[r] # None /\ Finalized(Get(run_root[r]))) =>
             /\ run_root'[r] # None
             /\ Get(run_root'[r]).figures = Get(run_root[r]).figures
             /\ Get(run_root'[r]).elements = Get(run_root[r]).elements
             /\ Get(run_root'[r]).exports # Get(run_root[r]).exports =>
                   call'.op = "export" /\ call'.run_id = r /\ ~call'.output_dir
             /\ \A f \in ChangedFiles(Get(run_root[r]), Get(run_root'[r])) :
                   OwnReport(f, call'.op) /\ call'.run_id = r]_vars

\* A critique with a threshold of its own replaced the architecture report
\* of a finalized run that had one.
C22_Witness ==
    /\ Called
    /\ call.op = "critique_architecture"
    /\ raised = "none"
    /\ call.persist
    /\ call.block_severity = "minor"
    /\ Finalized(CalledOn)
    /\ CalledOn.files["architecture_critique.json"] = result
    /\ Get(result).blocked
    /\ CalledOn.files["run.json"] # None
    /\ "arch_critique_mode" \in DOMAIN Get(CalledOn.files["run.json"])
    /\ Get(CalledOn.files["run.json"]).arch_critique_mode = "inline"

\* ---- C23
\* C23: a call of rerun, diff, inspect, export, audit or
\* critique_architecture whose run id (for diff: either run id) has no
\* directory under the run root raises the not-found error and creates or
\* modifies nothing: the run root, the diff directory and the export
\* output directory stay as they were.
C23_MissingRunIsNotFound ==
    [][(pc = "ready" /\ pc' = "returned"
        /\ (\/ run_root[call'.run_id] = None
            \/ call'.op = "diff" /\ run_root[call'.run_id_2] = None)) =>
          /\ raised' = "NotFound"
          /\ result' = None
          /\ run_root' = run_root
          /\ diff_report' = diff_report
          /\ export_out' = export_out]_vars

\* diff was called with an existing first run and a second run id that has
\* no directory.
C23_Witness ==
    /\ Called
    /\ call.op = "diff"
    /\ run_root[call.run_id] # None
    /\ run_root[call.run_id_2] = None
    /\ raised = "NotFound"
    /\ diff_report = None

\* ---- C24
\* The summary unfiltered inspect gives of the run generate returned.
Inspected == Inspect(runFiles, figures, max_iterations)

\* C24: for a run generate returned, unfiltered inspect agrees with the
\* loop: total_figures is the number of plan entries, a figure is accepted
\* exactly when one of its rounds passed critique, accepted_count and
\* failed_count add up to total_figures, a figure that never passed has
\* iterations_attempted = max_iterations and max_iterations_hit set, and an
\* accepted figure has max_iterations_hit unset.
C24_InspectAgreesWithLoop ==
    Returned =>
        /\ Inspected.aggregate.total_figures = Len(plan)
        /\ Inspected.aggregate.accepted_count + Inspected.aggregate.failed_count
              = Inspected.aggregate.total_figures
        /\ Inspected.aggregate.accepted_count
              = Cardinality({f \in PlanIds : PassedRounds(f) # {}})
        /\ \A f \in PlanIds :
              /\ SummaryOf(Inspected, f) # {}
              /\ \A sm \in SummaryOf(Inspected, f) :
                    /\ sm.accepted = (PassedRounds(f) # {})
                    /\ PassedRounds(f) = {} =>
                          /\ sm.iterations_attempted = max_iterations
                          /\ sm.max_iterations_hit
                    /\ PassedRounds(f) # {} => ~sm.max_iterations_hit

\* The same for runs whose cap allows at least one round.
C24_WithARound == max_iterations >= 1 => C24_InspectAgreesWithLoop

\* ---- C25
\* inspect returned a summary.
Inspected_Call == Called /\ call.op = "inspect" /\ raised = "none"
\* The figure summaries of the inspected run with no filter applied.
Unfiltered == FigureSummaries(CalledOn, max_iterations)

\* C25: for every combination of filters, the aggregate inspect returns is
\* computed over the returned figures only: total_figures is their number,
\* accepted_count the number of them whose final critique passed,
\* failed_count the rest, both averages range over them, and the total is
\* never more than the unfiltered total.
C25_AggregateOverFilteredFigures ==
    Inspected_Call =>
        LET returned == Get(result).figures
            aggregate == Get(result).aggregate
        IN  /\ aggregate.total_figures = Len(returned)
            /\ aggregate.accepted_count
                  = Cardinality({k \in DOMAIN returned :
                                    returned[k].final_passed = Some(TRUE)})
            /\ aggregate.failed_count
                  = aggregate.total_figures - aggregate.accepted_count
            /\ aggregate.avg_final_score = Average(FinalScores(returned))
            /\ aggregate.avg_traceability_coverage
                  = AverageRatio(CoverageValues(returned))
            /\ aggregate.total_figures <= Len(Unfiltered)

\* A filter removed an accepted figure and kept a failed one, so the
\* aggregate differs from the unfiltered one.
C25_Witness ==
    /\ Inspected_Call
    /\ Len(Get(result).figures) >= 1
    /\ Len(Get(result).figures) < Len(Unfiltered)
    /\ Get(result).aggregate.accepted_count = 0
    /\ Aggregate(Unfiltered).accepted_count >= 1
    /\ Get(result).aggregate.avg_final_score # Aggregate(Unfiltered).avg_final_score

\* ---- C26
\* The spellings of one critique dimension, up to case and surrounding blanks.
DimensionNames == {{"readability", "Readability"},
                   {"aesthetics", "AESTHETICS", " AESTHETICS "},
                   {"faithfulness"}}
SameDimension(a, b) == \E name \in DimensionNames : a \in name /\ b \in name
\* The figure summary passes every filter the call supplied (an empty
\* string supplies none).
Keeps(item, filters) ==
    /\ filters.figure_id # None => item.figure_id = Get(filters.figure_id)
    /\ filters.failures_only => item.final_passed # Some(TRUE)
    /\ filters.min_score # None =>
          /\ item.final_score # None
          /\ Get(item.final_score) >= Get(filters.min_score)
    /\ (filters.failed_dimension # None /\ filters.failed_dimension # Some("")) =>
          \E dim \in item.failed_dimensions :
             SameDimension(dim, Get(filters.failed_dimension))

\* C26: the figures inspect returns are exactly the figures of the run that
\* satisfy every supplied filter (figure_id, failures_only, min_score,
\* failed_dimension compared without regard to case), in the run's order.
C26_ReturnedFiguresSatisfyFilters ==
    Inspected_Call =>
        Get(result).figures
           = SelectSeq(Unfiltered, LAMBDA item : Keeps(item, call.filters))

\* A failed-dimension filter written in another case kept a figure that
\* failed that dimension and dropped another figure.
C26_Witness ==
    /\ Inspected_Call
    /\ call.filters.failed_dimension = Some("Readability")
    /\ call.filters.min_score = Some(60)
    /\ Len(Get(result).figures) = 1
    /\ "readability" \in Get(result).figures[1].failed_dimensions
    /\ Len(Unfiltered) = 2

\* ---- C27
\* C27: for every figure inspect reports, the coverage is null exactly when
\* total_elements = 0 and is otherwise traced_elements / total_elements
\* with 0 <= traced_elements <= total_elements, so a defined coverage lies
\* between 0 and 1.
C27_CoverageIsAFraction ==
    Inspected_Call =>
        \A k \in DOMAIN Get(result).figures :
           LET t == Get(result).figures[k].traceability
           IN  /\ (t.coverage = None) = (t.total_elements = 0)
               /\ t.total_elements # 0 =>
                     /\ Get(t.coverage).num = t.traced_elements
                     /\ Get(t.coverage).den = t.total_elements
                     /\ 0 <= t.traced_elements
                     /\ t.traced_elements <= t.total_elements

\* The same for run directories whose element files are the ones the
\* generator wrote.
C27_OnGeneratedElementFiles ==
    (Inspected_Call /\ CalledOn.elements = DefaultElements) => C27_CoverageIsAFraction

\* ---- C28
\* The architecture report of the run under generation, once written.
ArchitectureReportWritten == runFiles["architecture_critique.json"] # None

\* C28: an architecture critique report is blocked if and only if the
\* highest severity among its findings, in the order info < minor < major
\* < critical, is at least block_severity, that is, if and only if one of
\* its findings is at least that severe.
C28_BlockedIffSevereFinding ==
    ArchitectureReportWritten =>
        LET report == Get(runFiles["architecture_critique.json"])
        IN  report.blocked
               = (\E finding \in report.findings :
                     SEVERITY_ORDER[finding.severity]
                        >= SEVERITY_ORDER[report.block_severity])

\* The same for reports that have a finding or a threshold above info.
C28_WithAFindingOrAboveInfo ==
    (/\ ArchitectureReportWritten
     /\ \/ Get(runFiles["architecture_critique.json"]).findings # {}
        \/ arch_critique_block_severity # "info")
        => C28_BlockedIffSevereFinding

\* ---- C29
\* critique_architecture was called on an existing run with a selection of
\* rules.
CritiqueSelected ==
    /\ Called
    /\ call.op = "critique_architecture"
    /\ run_root[call.run_id] # None
    /\ call.enabled_rules # None
EnabledIds == {Get(call.enabled_rules)[k] : k \in DOMAIN Get(call.enabled_rules)}

\* C29: when critique is given a set of enabled rules, only those rules are
\* evaluated: every finding of the report carries the id of an enabled
\* rule and blocked is computed from those findings only, so a run without
\* a plan is not blocked at the critical threshold when only
\* traceability_gap is enabled; an enabled id that is not in the registry
\* is rejected with an error and no report.
C29_OnlyEnabledRulesEvaluated ==
    CritiqueSelected =>
        IF EnabledIds \subseteq RuleIds
        THEN /\ raised = "none"
             /\ result # None
             /\ LET report == Get(result)
                    found == {report.findings[k] : k \in DOMAIN report.findings}
                IN  /\ \A finding \in found : finding.finding_id \in EnabledIds
                    /\ report.blocked = Blocked(found, call.block_severity)
                    /\ (/\ EnabledIds = {"traceability_gap"}
                        /\ call.block_severity = "critical") => ~report.blocked
        ELSE /\ raised = "UnknownRule"
             /\ result = None

\* Only traceability_gap was enabled on a run without a plan: the report is
\* not blocked, while the critique with every rule would be.
C29_Witness ==
    /\ CritiqueSelected
    /\ Get(call.enabled_rules) = << "traceability_gap" >>
    /\ call.block_severity = "critical"
    /\ CalledOn.files["plan.json"] = None
    /\ result # None
    /\ ~Get(result).blocked
    /\ Critique(call.run_id, CalledOn, call.block_severity, None, call.repository).blocked

\* ---- C30
\* audit returned a report.
Audited == Called /\ call.op = "audit" /\ raised = "none"
\* The checks of the returned report that failed.
FailedChecks ==
    {Get(result).checks[k] : k \in {n \in DOMAIN Get(result).checks :
                                       ~Get(result).checks[n].passed}}

\* C30: a reproducibility audit report has passed = true if and only if no
\* required check failed; a missing run.json or required artifact makes the
\* report fail in either mode, and a failed non-required check (the
\* undeclared seed) alone never does.
C30_PassedIffNoRequiredCheckFailed ==
    Audited =>
        /\ Get(result).passed = (\A check \in FailedChecks : ~check.required)
        /\ \A path \in RequiredArtifacts \cup {"run.json"} :
              CalledOn.files[path] = None => ~Get(result).passed
        /\ (\A check \in FailedChecks : check.check_id = "deterministic_seed_declared")
              => Get(result).passed

\* The run declares no seed and nothing else is wrong: the seed check
\* failed and the report passed, in hard mode.
C30_Witness ==
    /\ Audited
    /\ call.mode = "hard"
    /\ \E check \in FailedChecks : check.check_id = "deterministic_seed_declared"
    /\ Get(result).passed


\* ------------------------------------------------- CriticAgent (critic.py)
\* Python floats are IEEE-754 doubles. A double between 0 and 4 is held
\* exactly as a count of units of 2^-60, written in four limbs of 19 bits,
\* lowest first (the fourth limb holds the bits from 2^-3 upwards).
Limb == 524288
Limbs == 1..4

\* Carries (and borrows) are propagated from the lowest limb upwards.
Normalised(n) ==
    LET k1 == n[1] \div Limb
        k2 == (n[2] + k1) \div Limb
        k3 == (n[3] + k2) \div Limb
    IN  << n[1] % Limb, (n[2] + k1) % Limb, (n[3] + k2) % Limb, n[4] + k3 >>

\* The spacing of the doubles around n (53 significant bits), in units.
Ulp(n) ==
    IF n[4] >= 16 THEN 512
    ELSE IF n[4] >= 8 THEN 256
    ELSE IF n[4] >= 4 THEN 128
    ELSE IF n[4] >= 2 THEN 64
    ELSE IF n[4] >= 1 THEN 32
    ELSE IF n[3] >= 262144 THEN 16
    ELSE IF n[3] >= 131072 THEN 8
    ELSE IF n[3] >= 65536 THEN 4
    ELSE IF n[3] >= 32768 THEN 2
    ELSE 1

\* Round to nearest, ties to even: the rounding of every float operation.
\* sticky tells that the exact value lies strictly above n.
RoundToDouble(n, sticky) ==
    LET ulp == Ulp(n)
        r == n[1] % ulp
        odd == (n[1] \div ulp) % 2 = 1
        up == \/ 2 * r > ulp
              \/ 2 * r = ulp /\ (sticky \/ odd)
    IN  Normalised([n EXCEPT ![1] = n[1] - r + (IF up THEN ulp ELSE 0)])

\* The double a decimal literal of the source (or a threshold given as a
\* decimal) denotes: pct/100 correctly rounded. The quotient of
\* pct * 2^60 by 100 is taken limb by limb from the top.
Double(pct) ==
    LET q4 == (pct * 8) \div 100
        r4 == (pct * 8) % 100
        q3 == (r4 * Limb) \div 100
        r3 == (r4 * Limb) % 100
        q2 == (r3 * Limb) \div 100
        r2 == (r3 * Limb) % 100
        q1 == (r2 * Limb) \div 100
        r1 == (r2 * Limb) % 100
    IN  RoundToDouble(<<q1, q2, q3, q4>>, r1 # 0)

\* a + b and a - b on floats (a >= b in every subtraction of the source).
FloatAdd(a, b) == RoundToDouble(Normalised([i \in Limbs |-> a[i] + b[i]]), FALSE)
FloatSub(a, b) == RoundToDouble(Normalised([i \in Limbs |-> a[i] - b[i]]), FALSE)

\* a < b on floats.
FloatLess(a, b) ==
    \E i \in Limbs : a[i] < b[i] /\ \A j \in Limbs : j > i => a[j] = b[j]

FloatMin(a, b) == IF FloatLess(b, a) THEN b ELSE a
FloatMax(a, b) == IF FloatLess(a, b) THEN b ELSE a

\* a / 4 is exact: the exponent changes, the digits do not.
FloatQuarter(a) ==
    << a[1] \div 4 + (a[2] % 4) * (Limb \div 4),
       a[2] \div 4 + (a[3] % 4) * (Limb \div 4),
       a[3] \div 4 + (a[4] % 4) * (Limb \div 4),
       a[4] \div 4 >>

\* round(x, 3), in thousandths: the exact value of the double is rounded
\* to three decimals, ties to even.
Round3(a) ==
    LET m == Normalised([i \in Limbs |-> a[i] * 1000])
        k == m[4] \div 8
        top == m[4] % 8
        rest == m[1] # 0 \/ m[2] # 0 \/ m[3] # 0
        up == \/ top > 4
              \/ top = 4 /\ (rest \/ k % 2 = 1)
    IN  IF up THEN k + 1 ELSE k


\* What the critic looks at in the SVG text: the number of "<text"
\* occurrences, the number of "<rect"/"<path"/"<line"/"<circle"
\* occurrences, the number of "<polygon" occurrences, len(svg_text), and
\* whether the text contains "font-size", "viewBox", "width", "height",
\* "stroke", "fill", "font-family" and "mock paperbanana output".
SvgText(texts, shapes, polygons, length, font_size, viewBox, width, height, stroke, fill, font_family, mock) ==
    [texts |-> texts, shapes |-> shapes, polygons |-> polygons, length |-> length,
     font_size |-> font_size, viewBox |-> viewBox, width |-> width,
     height |-> height, stroke |-> stroke, fill |-> fill,
     font_family |-> font_family, mock |-> mock]

\* if cond: score += pct/100
Plus(score, cond, pct) == IF cond THEN FloatAdd(score, Double(pct)) ELSE score

\* _score_faithfulness; description_chars is len(plan.description.strip())
\* and paper.results_text tells that the paper has a results section with
\* text.
score_faithfulness(svg, figure, paper) ==
    FloatMin(
      Plus(Plus(Plus(Plus(Double(35),
          figure.source_spans # << >>, 30),
          figure.description_chars > 20, 10),
          figure.kind = "results_plot" /\ paper.results_text, 15),
          svg.mock, 5),
      Double(100))

\* _score_readability
score_readability(svg) ==
    FloatMin(
      Plus(Plus(Plus(Plus(Plus(Double(30),
          svg.texts >= 2, 25),
          svg.texts = 1, 15),
          svg.shapes >= 1, 20),
          svg.font_size, 10),
          svg.viewBox, 10),
      Double(100))

\* _score_conciseness
score_conciseness(svg) ==
    LET by_length ==
            IF 250 <= svg.length /\ svg.length <= 9000
            THEN FloatAdd(Double(50), Double(25))
            ELSE IF svg.length > 12000
                 THEN FloatSub(Double(50), Double(20))
                 ELSE FloatSub(Double(50), Double(10))
        primitive_count == svg.shapes + svg.polygons
    IN  FloatMax(FloatMin(
          IF 1 <= primitive_count /\ primitive_count <= 40
          THEN FloatAdd(by_length, Double(20))
          ELSE IF primitive_count > 120
               THEN FloatSub(by_length, Double(20))
               ELSE by_length,
          Double(100)), Double(0))

\* _score_aesthetics
score_aesthetics(svg) ==
    FloatMin(
      Plus(Plus(Plus(Plus(Double(35),
          svg.viewBox /\ svg.width /\ svg.height, 20),
          svg.stroke, 15),
          svg.fill, 15),
          svg.font_family, 10),
      Double(100))

\* The dimensions in the order of the dict _score_dimensions builds.
Dimensions == <<"faithfulness", "readability", "conciseness", "aesthetics">>

\* _score_dimensions
score_dimensions(svg, figure, paper) ==
    [faithfulness |-> score_faithfulness(svg, figure, paper),
     readability |-> score_readability(svg),
     conciseness |-> score_conciseness(svg),
     aesthetics |-> score_aesthetics(svg)]

\* The issue and the recommendation the critic attaches to a failed
\* dimension; none of the four issues contains "invalid".
DimensionIssue ==
    [readability |-> "Readability below threshold: labels or visual structure are insufficient.",
     faithfulness |-> "Faithfulness below threshold: figure support from source spans is weak.",
     conciseness |-> "Conciseness below threshold: figure is either too sparse or overloaded.",
     aesthetics |-> "Aesthetics below threshold: layout balance and presentation need refinement."]
DimensionRecommendation ==
    [readability |-> "Add clear labels, improve hierarchy, and avoid dense overlaps.",
     faithfulness |-> "Tie every key label and relation to explicit source text spans.",
     conciseness |-> "Keep only essential elements and remove decorative clutter.",
     aesthetics |-> "Improve alignment, spacing, and consistent visual encoding."]
InvalidIssues == {}

\* value < self.dimension_threshold
FailedDimension(value, limit) == FloatLess(value, limit)

\* The report critique builds from the dimensions: score = sum(...) / len(...) with
\* the sum taken in dict order, starting from the integer 0; the report
\* holds the score and the dimensions rounded to three decimals (in
\* thousandths here), the thresholds as given (percentages here).
ReportOf(self, figure, dimensions) ==
    LET score == FloatQuarter(FloatAdd(FloatAdd(FloatAdd(
                     dimensions.faithfulness, dimensions.readability),
                     dimensions.conciseness), dimensions.aesthetics))
        failed_dimensions ==
            {Dimensions[i] : i \in {j \in DOMAIN Dimensions :
                FailedDimension(dimensions[Dimensions[j]], Double(self.dimension_threshold))}}
        issues == {DimensionIssue[d] : d \in failed_dimensions}
        passed == /\ ~FloatLess(score, Double(self.threshold))
                  /\ failed_dimensions = {}
                  /\ issues \cap InvalidIssues = {}
    IN  [figure_id |-> figure.figure_id,
         score |-> Round3(FloatMin(score, Double(100))),
         threshold |-> self.threshold,
         quality_dimensions |-> [d \in DOMAIN dimensions |-> Round3(dimensions[d])],
         dimension_threshold |-> self.dimension_threshold,
         failed_dimensions |-> failed_dimensions,
         issues |-> issues,
         recommendations |->
             {DimensionRecommendation[d] : d \in failed_dimensions}
             \cup (IF passed THEN {}
                   ELSE {"Revise layout to improve clarity and alignment with the paper."}),
         passed |-> passed]

\* CriticAgent.critique; self holds the thresholds the critic was built with.
critique(self, svg, figure, paper) ==
    CHOOSE report \in {ReportOf(self, figure, dimensions) :
                          dimensions \in {score_dimensions(svg, figure, paper)}} : TRUE


\* No generate, rerun or run-root call is under way: the variables of the
\* orchestrator's runs are at rest.
NoRunUnderWay ==
    /\ max_iterations = MaxIterations
    /\ arch_critique_mode = "inline"
    /\ arch_critique_block_severity = "critical"
    /\ repro_audit_mode = "soft"
    /\ docs_auto_regen_on_generate = TRUE
    /\ template_pack = "expanded_v1"
    /\ plan = << >>
    /\ caller = SelfConfig
    /\ source_run = NoSourceRun
    /\ plan_override = None
    /\ metadata_overrides = None
    /\ run_id = None
    /\ planner_calls = 0
    /\ run_id_1 = "run-a"
    /\ run_id_2 = "run-a"
    /\ diff_report = None
    /\ export_out = None
    /\ raised = "none"
    /\ figure_index = 0
    /\ iteration = 0
    /\ accepted = FALSE
    /\ last_report = None
    /\ critique_feedback = None
    /\ candidate = None
    /\ captions = <<>>
    /\ traceability_records = <<>>
    /\ runFiles = [f \in TopFiles |-> None]
    /\ figures = [f \in FigureIds |-> None]
    /\ events = <<>>

\* The SVG texts the critic is given: the empty drawing of the tests, a
\* drawing of polygons only, one with a viewBox but no width or height, two
\* outputs of the mock generator, and drawings combining what the critic
\* looks at (a text shorter than 13000 characters has no room for 121 shapes).
EmptySvg == SvgText(0, 0, 0, 11, FALSE, FALSE, FALSE, FALSE, FALSE, FALSE, FALSE, FALSE)
SvgTexts ==
    { EmptySvg,
      SvgText(0, 0, 1, 100, FALSE, FALSE, FALSE, FALSE, TRUE, TRUE, FALSE, FALSE),
      SvgText(1, 2, 0, 270, TRUE, TRUE, FALSE, FALSE, TRUE, TRUE, TRUE, FALSE),
      SvgText(2, 2, 0, 270, TRUE, TRUE, TRUE, TRUE, TRUE, TRUE, TRUE, TRUE),
      SvgText(1, 0, 0, 320, TRUE, FALSE, FALSE, FALSE, TRUE, TRUE, TRUE, TRUE) } \cup
    { svg \in
        { SvgText(texts, shapes, 0, length, font_size, viewBox, viewBox, viewBox,
                  stroke, fill, font_family, FALSE) :
            texts \in 0..2, shapes \in {0, 2, 121}, length \in {100, 270, 13000},
            font_size \in BOOLEAN, viewBox \in BOOLEAN, stroke \in BOOLEAN,
            fill \in BOOLEAN, font_family \in BOOLEAN } :
        svg.shapes = 121 => svg.length = 13000 }

\* The figures the critic is given, and the papers: the paper of the tests,
\* which has results, and one without.
CriticFigures ==
    { [figure_id |-> 1, kind |-> kind, description_chars |-> chars,
       source_spans |-> spans] :
        kind \in {"system_overview", "results_plot"}, chars \in {5, 22},
        spans \in {<< >>, << [section |-> "system", start |-> 12, end |-> 22] >>} }
CriticPapers == { [results_text |-> b] : b \in BOOLEAN }
CriticInputs ==
    { in \in SvgTexts \X CriticFigures \X CriticPapers :
        ~in[3].results_text => in[1] = EmptySvg /\ in[2].kind = "results_plot" }

\* The thresholds a critic is built with (percentages): the defaults and
\* those of the tests.
CriticThresholds == { <<75, 55>>, <<60, 50>>, <<10, 80>> }

CriticInit ==
    /\ \E t \in CriticThresholds : quality_threshold = t[1] /\ dimension_threshold = t[2]
    /\ NoRunUnderWay
    /\ NoManifest
    /\ NoLab
    /\ NoPending
    /\ op = "critique"
    /\ run_root = [r \in RunIds |-> None]
    /\ call = NoCall
    /\ result = None
    /\ docs = "unread"
    /\ pc = "ready"

\* CriticAgent(threshold, dimension_threshold).critique(svg_path, plan, paper)
CriticAgentCritique ==
    /\ pc = "ready"
    /\ op = "critique"
    /\ \E in \in CriticInputs :
          /\ call' = [op |-> "critique", svg |-> in[1], figure |-> in[2], paper |-> in[3]]
          /\ result' = Some(critique([threshold |-> quality_threshold,
                                      dimension_threshold |-> dimension_threshold],
                                     in[1], in[2], in[3]))
    /\ pc' = "done"
    /\ UNCHANGED <<rerunFrame, docs, run_root, diff_report, export_out, raised>>

CriticNext == CriticAgentCritique

CriticSpec == CriticInit /\ [][CriticNext]_vars

\* ---- C35
\* The report of the critique call.
CritiqueReturned == op = "critique" /\ pc = "done"

\* C35: the report has passed=true if and only if its score is at least the
\* quality threshold and none of its quality dimensions is below the
\* dimension threshold, and its failed_dimensions are exactly the
\* dimensions scoring below the dimension threshold. (Scores are in
\* thousandths, thresholds in percent.)
C35_PassedIffScoresClearThresholds ==
    CritiqueReturned =>
        LET report == Get(result)
            below == {d \in DOMAIN report.quality_dimensions :
                         report.quality_dimensions[d] < 10 * report.dimension_threshold}
        IN  /\ report.passed = (report.score >= 10 * report.threshold /\ below = {})
            /\ report.failed_dimensions = below

\* C35 (existence): a figure fails on a dimension although its score clears
\* the quality threshold.
C35_FailsOnADimensionOnly ==
    /\ CritiqueReturned
    /\ Get(result).score >= 10 * Get(result).threshold
    /\ Get(result).failed_dimensions # {}
    /\ ~Get(result).passed

\* ---- C36
\* C36: a generator or critic error in any round of any figure aborts
\* generate at once: the failed call is the last thing that happens, the
\* figure gets no final directory even when earlier rounds left artifacts,
\* no later figure is processed and no finalization stage runs.
C36_AnyRoundFailureIsFatal ==
    \A k \in DOMAIN events :
        (events[k].kind \in {"generate", "critique"} /\ ~events[k].ok) =>
            /\ k = Len(events)
            /\ pc = "aborted"
            /\ raised = (IF events[k].kind = "generate"
                         THEN "GenerationFailure" ELSE "CritiqueFailure")
            /\ FinalDir(events[k].figure) = None
            /\ \A j \in DOMAIN plan :
                  j > PlanIndex(events[k].figure) => figures[plan[j].figure_id] = None
            /\ \A name \in FinalizationFiles : runFiles[name] = None

\* The critic failed in round 2 of a figure whose round 1 left a figure and
\* a critique.
C36_Witness ==
    /\ pc = "aborted"
    /\ events # << >>
    /\ events[Len(events)].kind = "critique"
    /\ ~events[Len(events)].ok
    /\ events[Len(events)].iteration = 2
    /\ CritiqueFile(events[Len(events)].figure, 1) # None
    /\ Get(IterDir(events[Len(events)].figure, 2)).svg # None
    /\ FinalDir(events[Len(events)].figure) = None

\* ---- C39
\* C39: an architecture critique report with no findings is never blocked,
\* whatever block_severity is.
C39_EmptyReportNeverBlocked ==
    (ArchitectureReportWritten
     /\ Get(runFiles["architecture_critique.json"]).findings = {})
        => ~Get(runFiles["architecture_critique.json"]).blocked

\* The same for the thresholds above info.
C39_AboveInfo == arch_critique_block_severity # "info" => C39_EmptyReportNeverBlocked

\* ---- C40
\* The caps an inspecting orchestrator may be configured with.
InstanceCaps == 0..(MaxIterations + 1)
\* run.json of the inspected run records max_iterations.
CapRecorded ==
    /\ CalledOn.files["run.json"] # None
    /\ "max_iterations" \in DOMAIN Get(CalledOn.files["run.json"])
\* max_iterations_hit as inspect defines it for the cap m.
HitAt(item, m) ==
    item.iterations_attempted > 0 /\ item.iterations_attempted >= m /\ ~item.accepted

\* C40: inspect decides max_iterations_hit from the max_iterations recorded
\* in run.json: orchestrators with different max_iterations return the same
\* max_iterations_hit for every figure of the run, the one the recorded cap
\* gives; the instance's own value decides only when run.json lacks it.
C40_HitFromRecordedCap ==
    Inspected_Call =>
        \A m \in InstanceCaps :
           LET summary == InspectView(call.run_id, CalledOn, m, call.filters)
           IN  /\ Len(summary.figures) = Len(Get(result).figures)
               /\ \A k \in DOMAIN summary.figures :
                     IF CapRecorded
                     THEN /\ summary.figures[k].max_iterations_hit
                               = Get(result).figures[k].max_iterations_hit
                          /\ summary.figures[k].max_iterations_hit
                               = HitAt(summary.figures[k],
                                       Get(CalledOn.files["run.json"]).max_iterations)
                     ELSE summary.figures[k].max_iterations_hit
                             = HitAt(summary.figures[k], m)

\* A run recorded with cap 1 whose figure never passed is inspected by an
\* orchestrator configured with a higher cap: the figure hit the cap.
C40_Witness ==
    /\ Inspected_Call
    /\ CapRecorded
    /\ Get(CalledOn.files["run.json"]).max_iterations = 1
    /\ max_iterations > 1
    /\ \E k \in DOMAIN Get(result).figures :
          /\ Get(result).figures[k].max_iterations_hit
          /\ Get(result).figures[k].iterations_attempted = 1

\* ---- C38
\* This step is a call of rerun.
RerunStep == pc = "ready" /\ call'.op = "rerun"
\* The drift check of the run in this directory rewrote documents of the
\* repository.
DocsWrittenBy(dir) ==
    /\ dir.files["docs_drift_report.json"] # None
    /\ Get(dir.files["docs_drift_report.json"]).written
\* The directory is the replay of the source run the call named.
ReplayOf(dir, source_run_id) ==
    /\ dir.files["run.json"] # None
    /\ "rerun_of" \in DOMAIN Get(dir.files["run.json"])
    /\ Get(dir.files["run.json"]).rerun_of = source_run_id

\* C38 (as stated): rerun only reads the source run: whether it succeeds,
\* is rejected or fails at a gate, no file of the source run's directory is
\* created, changed or removed, and everything it writes goes into the new
\* run's directory.
C38_RerunWritesOnlyNewRun ==
    [][RerunStep =>
          /\ \A r \in RunIds : run_root[r] # None => run_root'[r] = run_root[r]
          /\ \A r \in RunIds :
                run_root'[r] # run_root[r] => ~DocsWrittenBy(Get(run_root'[r]))]_vars

\* C38 (amended): rerun leaves every existing run directory, the source
\* included, as it was; it creates at most one directory, the replay's,
\* tagged with the source run id; outside it the replay writes only the
\* repository documents its drift check regenerates, which happens only
\* when regeneration is on and the documents had drifted, and then rerun
\* fails at the docs gate.
C38_RerunLeavesSourceUnchanged ==
    [][RerunStep =>
          /\ \A r \in RunIds : run_root[r] # None => run_root'[r] = run_root[r]
          /\ Cardinality({r \in RunIds : run_root'[r] # run_root[r]}) <= 1
          /\ \A r \in RunIds :
                run_root'[r] # run_root[r] =>
                    /\ ReplayOf(Get(run_root'[r]), call'.run_id)
                    /\ DocsWrittenBy(Get(run_root'[r])) =>
                          /\ docs_auto_regen_on_generate
                          /\ Get(Get(run_root'[r]).files["docs_drift_report.json"]).drift_detected
                          /\ raised' = "GateFailure"
          /\ (\A r \in RunIds : run_root'[r] = run_root[r]) => docs' = docs]_vars

\* rerun replayed a finalized source run, the replay's drift check rewrote
\* drifted documents and rerun failed; the source run is still there.
C38_Witness ==
    /\ Called
    /\ call.op = "rerun"
    /\ raised = "GateFailure"
    /\ Finalized(CalledOn)
    /\ \E r \in RunIds \ {call.run_id} :
          /\ run_root[r] # None
          /\ ReplayOf(Get(run_root[r]), call.run_id)
          /\ DocsWrittenBy(Get(run_root[r]))

\* ---- C37
\* run.json of the run names it and plan.json lists every planned figure.
MetadataAndPlanHeld ==
    /\ runFiles["run.json"] # None
    /\ Get(runFiles["run.json"]).run_id = Get(run_id)
    /\ runFiles["plan.json"] # None
    /\ Len(Get(runFiles["plan.json"])) = Len(plan)
    /\ \A k \in DOMAIN plan : Get(runFiles["plan.json"])[k].figure_id = plan[k].figure_id
\* What rerun answers when given the run under generation as its source,
\* the paper still being in place.
AsSourceRejection ==
    RerunRejection(SourceOf(Get(run_id), [files |-> runFiles], TRUE))

\* C37 (as stated): run.json and plan.json are written before the first
\* generator call, so a run that aborts with a generation failure or a gate
\* failure still holds the metadata and the complete plan, and rerun
\* accepts it as a source.
C37_AbortedRunIsARerunSource ==
    /\ events # << >> => MetadataAndPlanHeld
    /\ pc = "aborted" => MetadataAndPlanHeld /\ AsSourceRejection = "none"

\* C37 (amended): run.json and plan.json are written before the first
\* generator call, an aborted run still holds the metadata and the complete
\* plan, and rerun accepts it as a source exactly when its plan is not
\* empty.
C37_AbortedRunWithFiguresIsARerunSource ==
    /\ events # << >> => MetadataAndPlanHeld
    /\ pc = "aborted" =>
          /\ MetadataAndPlanHeld
          /\ (AsSourceRejection = "none") = (Len(plan) > 0)

\* The generator failed on the second figure of the plan: the run holds its
\* metadata and both plan entries and rerun accepts it.
C37_Witness ==
    /\ pc = "aborted"
    /\ raised = "GenerationFailure"
    /\ Len(plan) = 2
    /\ figure_index = 2
    /\ MetadataAndPlanHeld
    /\ AsSourceRejection = "none"

\* ------------------------------------------ documentation regeneration
\* A document is the sequence of its pieces: text, newlines, and the
\* AUTO-GEN start and end markers with their block id. A marker is canonical
\* when it is spaced as the renderer writes it.
Text(value) == [kind |-> "text", id |-> value, canonical |-> TRUE]
Newline == [kind |-> "newline", id |-> "", canonical |-> TRUE]
StartMarker(block_id, canonical) == [kind |-> "start", id |-> block_id, canonical |-> canonical]
EndMarker(block_id, canonical) == [kind |-> "end", id |-> block_id, canonical |-> canonical]

\* get_command_catalog (its first three commands)
CommandCatalog == <<"generate", "rerun", "diff">>

\* "\n".join(lines)
RECURSIVE JoinLines(_)
JoinLines(lines) ==
    IF Len(lines) = 0 THEN << >>
    ELSE IF Len(lines) = 1 THEN << Text(lines[1]) >>
    ELSE << Text(lines[1]), Newline >> \o JoinLines(Tail(lines))

\* content.strip("\n")
StripNewlines(content) ==
    LET kept == {i \in DOMAIN content : content[i] # Newline}
    IN  IF kept = {} THEN << >>
        ELSE SubSeq(content, CHOOSE i \in kept : \A j \in kept : i <= j,
                             CHOOSE i \in kept : \A j \in kept : j <= i)

\* render_auto_block: the body of a block, or None when it raises
\* RuntimeError (unknown block type). The templates of a
\* flow_template_catalog block are those load_template_catalog returns.
render_auto_block(block_id, block_config) ==
    IF block_config.type = "cli_commands"
    THEN Some(<<Newline>> \o JoinLines(CommandCatalog) \o <<Newline>>)
    ELSE IF block_config.type = "flow_template_catalog"
    THEN Some(<<Newline>> \o JoinLines(block_config.templates) \o <<Newline>>)
    ELSE IF block_config.type = "static"
    THEN Some(<<Newline>> \o StripNewlines(block_config.content) \o <<Newline>>)
    ELSE None

\* AUTO_BLOCK_RE at position i: a start marker, the shortest body, and the
\* end marker of the same block id; 0 when there is no match at i.
AutoBlockEnd(text, i) ==
    IF text[i].kind # "start" THEN 0
    ELSE LET ends == {j \in DOMAIN text :
                         j > i /\ text[j].kind = "end" /\ text[j].id = text[i].id}
         IN  IF ends = {} THEN 0 ELSE CHOOSE j \in ends : \A k \in ends : j <= k

\* A rendering that raised.
RenderingRaised ==
    [raised |-> TRUE, text |-> << >>, rendered_blocks |-> << >>,
     missing_block_configs |-> << >>]

\* AUTO_BLOCK_RE.sub(_replace, text) from position i on: matches are taken
\* left to right and do not overlap; a block without a configuration is
\* left as it is, a configured one is replaced by canonical markers around
\* its rendered body.
RECURSIVE Substituted(_, _, _)
Substituted(text, i, auto_blocks) ==
    IF i > Len(text)
    THEN [raised |-> FALSE, text |-> << >>, rendered_blocks |-> << >>,
          missing_block_configs |-> << >>]
    ELSE IF AutoBlockEnd(text, i) = 0
    THEN With(Substituted(text, i + 1, auto_blocks),
              LAMBDA rest : [rest EXCEPT !.text = <<text[i]>> \o @])
    ELSE IF text[i].id \notin DOMAIN auto_blocks
    THEN With(Substituted(text, AutoBlockEnd(text, i) + 1, auto_blocks),
              LAMBDA rest :
                 [rest EXCEPT !.text = SubSeq(text, i, AutoBlockEnd(text, i)) \o @,
                              !.missing_block_configs = <<text[i].id>> \o @])
    ELSE IF render_auto_block(text[i].id, auto_blocks[text[i].id]) = None
    THEN RenderingRaised
    ELSE With(Substituted(text, AutoBlockEnd(text, i) + 1, auto_blocks),
              LAMBDA rest :
                 IF rest.raised THEN RenderingRaised
                 ELSE [rest EXCEPT
                         !.text = <<StartMarker(text[i].id, TRUE)>>
                                  \o Get(render_auto_block(text[i].id, auto_blocks[text[i].id]))
                                  \o <<EndMarker(text[i].id, TRUE)>> \o @,
                         !.rendered_blocks = <<text[i].id>> \o @])

\* render_hybrid_document
render_hybrid_document(text, auto_blocks) == Substituted(text, 1, auto_blocks)

\* _validate_required_sections
validate_required_sections(text, required_sections) ==
    SelectSeq(required_sections, LAMBDA section : \A i \in DOMAIN text : text[i] # Text(section))

\* The report of one manifest entry: the body of the loop of
\* run_docs_regeneration, given the rendering of the document.
DocumentReport(entry, original, rendering, check_only) ==
    IF rendering.raised
    THEN [path |-> entry.path, mode |-> entry.mode, exists |-> TRUE, drift |-> FALSE,
          written |-> FALSE, missing_required_sections |-> << >>,
          rendered_blocks |-> << >>, missing_block_configs |-> << >>,
          error |-> "RuntimeError"]
    ELSE [path |-> entry.path, mode |-> entry.mode, exists |-> TRUE,
          drift |-> rendering.text # original,
          written |-> rendering.text # original /\ ~check_only,
          missing_required_sections |->
              validate_required_sections(rendering.text, entry.required_sections),
          rendered_blocks |-> rendering.rendered_blocks,
          missing_block_configs |-> rendering.missing_block_configs,
          error |-> IF validate_required_sections(rendering.text, entry.required_sections) # << >>
                    THEN "missing_required_sections"
                    ELSE IF rendering.missing_block_configs # << >>
                    THEN "missing_block_config"
                    ELSE ""]

\* The report of an entry whose document does not exist.
MissingDocumentReport(entry) ==
    [path |-> entry.path, mode |-> entry.mode, exists |-> FALSE, drift |-> FALSE,
     written |-> FALSE, missing_required_sections |-> << >>,
     rendered_blocks |-> << >>, missing_block_configs |-> << >>,
     error |-> "document_missing"]

\* The rendering of a document under its entry: only hybrid and generated
\* documents are rendered.
Rendering(entry, original, auto_blocks) ==
    IF entry.mode \in {"hybrid", "generated"}
    THEN render_hybrid_document(original, auto_blocks)
    ELSE [raised |-> FALSE, text |-> original, rendered_blocks |-> << >>,
          missing_block_configs |-> << >>]

\* The loop of run_docs_regeneration from entry k on: the reports in
\* manifest order, and the documents as the loop leaves them.
RECURSIVE RegenerationLoop(_, _, _, _)
RegenerationLoop(m, k, check_only, files) ==
    IF k > Len(m.documents) THEN [reports |-> << >>, files |-> files]
    ELSE IF files[m.documents[k].path] = None
    THEN With(RegenerationLoop(m, k + 1, check_only, files),
              LAMBDA rest :
                 [rest EXCEPT !.reports = <<MissingDocumentReport(m.documents[k])>> \o @])
    ELSE With(Rendering(m.documents[k], Get(files[m.documents[k].path]), m.auto_blocks),
              LAMBDA rendering :
                With(DocumentReport(m.documents[k], Get(files[m.documents[k].path]),
                                    rendering, check_only),
                     LAMBDA report :
                       With(RegenerationLoop(m, k + 1, check_only,
                                IF report.written
                                THEN [files EXCEPT ![report.path] = Some(rendering.text)]
                                ELSE files),
                            LAMBDA rest : [rest EXCEPT !.reports = <<report>> \o @])))

\* drift_detected: a document is missing, its rendering differs from it, or
\* rendering raised.
drift_detected(reports) ==
    \E i \in DOMAIN reports :
        reports[i].drift \/ ~reports[i].exists \/ reports[i].error = "RuntimeError"

\* run_docs_regeneration: the report returned and the documents afterwards.
run_docs_regeneration(m, check_only, files) ==
    With(RegenerationLoop(m, 1, check_only, files),
         LAMBDA done :
            [report |-> [check_only |-> check_only,
                         drift_detected |-> drift_detected(done.reports),
                         documents |-> done.reports],
             files |-> done.files])

\* The documents of the repository and the block ids of the manifests.
DocPaths == {"README.md", "docs/cli.md"}
MaxDocumentLength == 24

\* Pieces documents are made of: the heading the manifest requires, a
\* block with stale, fresh or fresh but loosely spaced content, a block of a
\* second id, and a start or an end marker on its own.
StaleBlock(block_id) ==
    << StartMarker(block_id, TRUE), Newline, Text("stale"), Newline, EndMarker(block_id, TRUE) >>
FreshBlock(canonical) ==
    << StartMarker("demo-block", canonical), Newline, Text("fresh-content"), Newline,
       EndMarker("demo-block", TRUE) >>
DocumentPieces ==
    { << Text("## CLI Usage") >>, StaleBlock("demo-block"), FreshBlock(TRUE),
      FreshBlock(FALSE), StaleBlock("other"), << StartMarker("other", TRUE) >>,
      << EndMarker("other", TRUE) >> }
DocumentTexts ==
    {<< >>} \cup DocumentPieces \cup {a \o b : a \in DocumentPieces, b \in DocumentPieces}

\* The auto_blocks of the manifests: the static block of the tests, one
\* rendered from the command catalog, one whose content holds its own end
\* marker, alone or beside a block of an unknown type; and a block whose
\* content holds the end marker of another configured block.
StaticBlock(content) == [type |-> "static", content |-> content]
AutoBlocks ==
    { [b \in {"demo-block"} |-> demo] :
        demo \in { StaticBlock(<< Text("fresh-content") >>),
                   StaticBlock(<< Newline, Text("fresh-content"), Newline >>),
                   StaticBlock(<< Text("fresh-content"), EndMarker("demo-block", TRUE) >>),
                   [type |-> "cli_commands"] } }
    \cup
    { [b \in {"demo-block", "other"} |->
          IF b = "demo-block" THEN StaticBlock(<< Text("fresh-content") >>) ELSE other] :
        other \in { [type |-> "table"],
                    [type |-> "flow_template_catalog",
                     templates |-> << "- method_flow (methodology)" >>] } }
    \cup
    { [b \in {"demo-block", "other"} |->
          IF b = "demo-block" THEN StaticBlock(<< EndMarker("other", TRUE) >>)
          ELSE StaticBlock(<< Text("B") >>)],
      << >> }

\* The manifests: README.md in one of the modes, with or without a required
\* section, alone or followed by docs/cli.md.
ManifestEntry(path, mode, required_sections) ==
    [path |-> path, mode |-> mode, required_sections |-> required_sections]
ManifestDocuments ==
    { << first >> : first \in { ManifestEntry("README.md", "hybrid", << >>),
                                ManifestEntry("README.md", "hybrid", << "## CLI Usage" >>),
                                ManifestEntry("README.md", "generated", << >>),
                                ManifestEntry("README.md", "validated", << "## CLI Usage" >>) } }
    \cup { << ManifestEntry("README.md", "hybrid", << >>),
              ManifestEntry("docs/cli.md", "hybrid", << >>) >> }
Manifests ==
    { [documents |-> d, auto_blocks |-> b] : d \in ManifestDocuments, b \in AutoBlocks }

\* The repository: README.md with any of the texts, or missing; docs/cli.md
\* stale, fresh or missing.
DocumentFiles ==
    { [path \in DocPaths |-> IF path = "README.md" THEN readme ELSE cli] :
        readme \in {None} \cup {Some(t) : t \in DocumentTexts},
        cli \in {None, Some(StaleBlock("demo-block")), Some(FreshBlock(TRUE))} }

DocsInit ==
    /\ quality_threshold = 75
    /\ dimension_threshold = 55
    /\ NoRunUnderWay
    /\ NoLab
    /\ NoPending
    /\ manifest \in Manifests
    /\ documents \in { files \in DocumentFiles :
                          files["docs/cli.md"] # None
                          => \E i \in DOMAIN manifest.documents :
                                manifest.documents[i].path = "docs/cli.md" }
    /\ op = "docs"
    /\ run_root = [r \in RunIds |-> None]
    /\ call = NoCall
    /\ result = None
    /\ docs = "unread"
    /\ pc = "ready"

\* run_docs_regeneration(manifest_path, check_only, repo_root), as the
\* commands "docs check" and "docs regenerate" call it. (Documents that
\* keep growing are followed up to MaxDocumentLength pieces.)
DocsRun ==
    /\ op = "docs"
    /\ \A path \in DocPaths :
          documents[path] # None => Len(Get(documents[path])) <= MaxDocumentLength
    /\ \E check_only \in BOOLEAN :
          \E done \in {run_docs_regeneration(manifest, check_only, documents)} :
             /\ call' = [op |-> "docs", check_only |-> check_only]
             /\ result' = Some(done.report)
             /\ documents' = done.files
    /\ UNCHANGED <<max_iterations, arch_critique_mode, arch_critique_block_severity,
                   repro_audit_mode, docs_auto_regen_on_generate, plan,
                   quality_threshold, dimension_threshold, template_pack,
                   op, caller, source_run, plan_override, metadata_overrides,
                   manifest, lab_policy, lab_index, lab_experiments, pending,
                   callVars, run_id_1, run_id_2, localVars, runFiles,
                   figures, events, docs, run_root, diff_report, export_out,
                   raised, pc>>

DocsNext == DocsRun

DocsSpec == DocsInit /\ [][DocsNext]_vars

\* ---- C33
\* The manifest entries whose document exists, renders and differs from its
\* rendering: the drifted documents.
DriftedEntries(files) ==
    { i \in DOMAIN manifest.documents :
        /\ files[manifest.documents[i].path] # None
        /\ ~Rendering(manifest.documents[i], Get(files[manifest.documents[i].path]),
                      manifest.auto_blocks).raised
        /\ Rendering(manifest.documents[i], Get(files[manifest.documents[i].path]),
                     manifest.auto_blocks).text
           # Get(files[manifest.documents[i].path]) }
\* Every document of the manifest is a drifted document.
AllDrifted(files) ==
    /\ manifest.documents # << >>
    /\ DriftedEntries(files) = DOMAIN manifest.documents
\* No static block holds an end marker in its content.
NoEndMarkerInContent ==
    \A b \in DOMAIN manifest.auto_blocks :
        manifest.auto_blocks[b].type = "static"
        => \A i \in DOMAIN manifest.auto_blocks[b].content :
              manifest.auto_blocks[b].content[i].kind # "end"

\* C33: on drifted documents a check-only run reports drift and writes
\* nothing; a regenerating run reports drift and rewrites the documents
\* with their rendering; and a check run right after a regenerating run on
\* drifted documents reports no drift.
C33_RegenerationConvergesInOneStep ==
    [][ (op = "docs" /\ call'.op = "docs") =>
          /\ (AllDrifted(documents) /\ call'.check_only)
             => Get(result').drift_detected /\ documents' = documents
          /\ (AllDrifted(documents) /\ ~call'.check_only)
             => /\ Get(result').drift_detected
                /\ \A i \in DOMAIN manifest.documents :
                      documents'[manifest.documents[i].path] =
                          Some(Rendering(manifest.documents[i],
                                         Get(documents[manifest.documents[i].path]),
                                         manifest.auto_blocks).text)
          /\ (call.op = "docs" /\ ~call.check_only /\ Get(result).drift_detected
              /\ (\A i \in DOMAIN Get(result).documents : Get(result).documents[i].written)
              /\ call'.check_only)
             => ~Get(result').drift_detected ]_vars

\* The same statement for manifests whose static blocks hold no end marker:
\* it holds.
C33_ConvergesWithoutEndMarkersInContent ==
    [][ (op = "docs" /\ call'.op = "docs" /\ NoEndMarkerInContent) =>
          /\ (AllDrifted(documents) /\ call'.check_only)
             => Get(result').drift_detected /\ documents' = documents
          /\ (AllDrifted(documents) /\ ~call'.check_only)
             => /\ Get(result').drift_detected
                /\ \A i \in DOMAIN manifest.documents :
                      documents'[manifest.documents[i].path] =
                          Some(Rendering(manifest.documents[i],
                                         Get(documents[manifest.documents[i].path]),
                                         manifest.auto_blocks).text)
          /\ (call.op = "docs" /\ ~call.check_only /\ Get(result).drift_detected
              /\ (\A i \in DOMAIN Get(result).documents : Get(result).documents[i].written)
              /\ call'.check_only)
             => ~Get(result').drift_detected ]_vars

\* The case of the tests: a check right after a regeneration that rewrote a
\* stale block finds no drift.
C33_CleanAfterRegeneration ==
    /\ op = "docs"
    /\ call = [op |-> "docs", check_only |-> TRUE]
    /\ ~Get(result).drift_detected
    /\ documents["README.md"] = Some(FreshBlock(TRUE))

\* -------------------------------------------------------- the lab workflow
\* Experiment ids (exp-<timestamp>-<uuid6>): propose is taken to draw an id
\* no experiment of the lab run has.
LabExperimentIds == {"exp-1", "exp-2"}

\* Commands and blocked patterns are sequences of lower-case words; a
\* pattern occurs in a command when its words occur in it in a row.
Occurs(pattern, command) ==
    \E k \in 0..(Len(command) - Len(pattern)) :
        \A i \in DOMAIN pattern : command[k + i] = pattern[i]

\* design_experiment_command
design_experiment_command(source_run_id) ==
    IF source_run_id # ""
    THEN <<"python3", "-m", "paperfig.cli", "inspect", source_run_id, "--as-json">>
    ELSE <<"python3", "-m", "unittest", "discover", "-s", "tests", "-v">>

\* is_command_allowed: [allowed, reason]
is_command_allowed(command, policy) ==
    IF \E i \in DOMAIN policy.blocked_patterns : Occurs(policy.blocked_patterns[i], command)
    THEN [allowed |-> FALSE, reason |-> "Command blocked by pattern"]
    ELSE IF command = << >>
    THEN [allowed |-> FALSE, reason |-> "Command is empty"]
    ELSE IF /\ policy.allowed_prefixes # << >>
            /\ \A i \in DOMAIN policy.allowed_prefixes : policy.allowed_prefixes[i] # command[1]
    THEN [allowed |-> FALSE, reason |-> "Command prefix is not allowed"]
    ELSE [allowed |-> TRUE, reason |-> "allowed"]

LabExperimentResult(status, return_code, policy_violation) ==
    [experiment_id |-> "", status |-> status, return_code |-> return_code,
     policy_violation |-> policy_violation]

\* Mutant: a command that exits with a code other than 0 counts as
\* completed.
ExitStatus_Completed(returncode) == "completed"

\* status = "completed" if completed.returncode == 0 else "failed"
ExitStatus(returncode) == IF returncode = 0 THEN "completed" ELSE "failed"

\* execute_command: what the call can come to. A command the policy
\* forbids is not started (code 126); a started command exits with code 0
\* or another code, or runs into the timeout (code 124); subprocess.run
\* raises when the program cannot be started (None).
execute_command(command, policy) ==
    IF ~is_command_allowed(command, policy).allowed
    THEN { Some(LabExperimentResult("failed", 126, is_command_allowed(command, policy).reason)) }
    ELSE { Some(LabExperimentResult(ExitStatus(0), 0, "")),
           Some(LabExperimentResult(ExitStatus(1), 1, "")),
           Some(LabExperimentResult("failed", 124, "execution_timeout")),
           None }

\* review_experiment
review_experiment(spec, execution) ==
    [experiment_id |-> spec.experiment_id,
     recommendation |-> IF /\ execution.status = "completed"
                           /\ execution.return_code = 0
                           /\ execution.policy_violation = ""
                        THEN "promote" ELSE "revise",
     status |-> execution.status,
     return_code |-> execution.return_code,
     policy_violation |-> execution.policy_violation]

\* The entry upsert_experiment stores in index.json.
IndexEntry(spec, status) ==
    [experiment_id |-> spec.experiment_id, status |-> status,
     source_run_id |-> spec.source_run_id, topic |-> spec.topic]

\* upsert_experiment
upsert_experiment(index, experiment_id, payload) ==
    [index EXCEPT ![experiment_id] = Some(payload)]

\* The policies of the policy file: that of the tests, one that allows only
\* echo, one that blocks the unittest runner, and an empty one.
LabPolicies ==
    { [allowed_prefixes |-> <<"python3", "echo">>,
       blocked_patterns |-> << <<"rm", "-rf">>, <<"git", "reset", "--hard">> >>],
      [allowed_prefixes |-> <<"echo">>, blocked_patterns |-> << >>],
      [allowed_prefixes |-> << >>, blocked_patterns |-> << <<"unittest">> >>],
      [allowed_prefixes |-> << >>, blocked_patterns |-> << >>] }

\* The topics propose is called with: a free text and the id of a run.
LabTopics == {"template quality exploration", "run-a"}

\* LabOrchestrator and init_lab: an empty registry; the run root holds
\* run-a or nothing.
LabInit ==
    /\ quality_threshold = 75
    /\ dimension_threshold = 55
    /\ NoRunUnderWay
    /\ NoManifest
    /\ NoPending
    /\ lab_policy \in LabPolicies
    /\ lab_index = [e \in LabExperimentIds |-> None]
    /\ lab_experiments = [e \in LabExperimentIds |-> None]
    /\ op = "lab"
    /\ run_root \in { [r \in RunIds |-> None],
                      [r \in RunIds |-> IF r = "run-a"
                                        THEN Some(ReferenceDirectory("run-a", "complete"))
                                        ELSE None] }
    /\ call = NoCall
    /\ result = None
    /\ docs = "unread"
    /\ pc = "ready"

\* What no lab call changes.
labFrame == <<max_iterations, arch_critique_mode, arch_critique_block_severity,
              repro_audit_mode, docs_auto_regen_on_generate, plan,
              quality_threshold, dimension_threshold, template_pack,
              op, caller, source_run, plan_override, metadata_overrides,
              manifest, documents, lab_policy, pending, callVars, run_id_1, run_id_2,
              localVars, runFiles, figures, events, docs, run_root,
              diff_report, export_out, pc>>

\* LabOrchestrator.propose
LabPropose ==
    /\ op = "lab"
    /\ \E e \in LabExperimentIds : lab_experiments[e] = None
    /\ \E topic \in LabTopics :
          LET experiment_id == CHOOSE e \in LabExperimentIds : lab_experiments[e] = None
              source_run_id == IF topic \in RunIds /\ run_root[topic] # None
                               THEN topic ELSE ""
              spec == [experiment_id |-> experiment_id, topic |-> topic,
                       source_run_id |-> source_run_id,
                       command |-> design_experiment_command(source_run_id),
                       status |-> "proposed"]
          IN  /\ lab_experiments' = [lab_experiments EXCEPT ![experiment_id] =
                     Some([spec |-> spec, execution_log |-> None, review |-> None])]
              /\ lab_index' = upsert_experiment(lab_index, experiment_id,
                                                IndexEntry(spec, "proposed"))
              /\ call' = [op |-> "propose", topic |-> topic]
              /\ result' = Some(spec)
              /\ raised' = "none"
    /\ UNCHANGED labFrame

\* LabOrchestrator.run
LabRun ==
    /\ op = "lab"
    /\ \E experiment_id \in LabExperimentIds :
          /\ call' = [op |-> "run", experiment_id |-> experiment_id]
          /\ IF lab_experiments[experiment_id] = None
             THEN /\ raised' = "NotFound"
                  /\ result' = None
                  /\ UNCHANGED <<lab_index, lab_experiments>>
             ELSE \E outcome \in execute_command(
                        Get(lab_experiments[experiment_id]).spec.command, lab_policy) :
                     IF outcome = None
                     THEN /\ raised' = "OSError"
                          /\ result' = None
                          /\ UNCHANGED <<lab_index, lab_experiments>>
                     ELSE LET execution == [Get(outcome) EXCEPT !.experiment_id = experiment_id]
                              spec == [Get(lab_experiments[experiment_id]).spec EXCEPT
                                          !.status = IF execution.status = "completed"
                                                     THEN "completed" ELSE "failed"]
                          IN  /\ lab_experiments' =
                                    [lab_experiments EXCEPT ![experiment_id] =
                                        Some([Get(@) EXCEPT !.spec = spec,
                                                            !.execution_log = Some(execution)])]
                              /\ lab_index' = upsert_experiment(lab_index, experiment_id,
                                                                IndexEntry(spec, spec.status))
                              /\ result' = Some(execution)
                              /\ raised' = "none"
    /\ UNCHANGED labFrame

\* spec.yaml and execution_log.json both exist.
Reviewable(dir) == dir # None /\ Get(dir).execution_log # None

\* LabOrchestrator.review
LabReview ==
    /\ op = "lab"
    /\ \E experiment_id \in LabExperimentIds :
          /\ call' = [op |-> "review", experiment_id |-> experiment_id]
          /\ IF ~Reviewable(lab_experiments[experiment_id])
             THEN /\ raised' = "NotFound"
                  /\ result' = None
                  /\ UNCHANGED <<lab_index, lab_experiments>>
             ELSE LET dir == Get(lab_experiments[experiment_id])
                      review ==
                          [review |-> review_experiment(dir.spec, Get(dir.execution_log)),
                           repro_audit |-> /\ dir.spec.source_run_id # ""
                                           /\ run_root[dir.spec.source_run_id] # None]
                  IN  /\ lab_experiments' = [lab_experiments EXCEPT ![experiment_id] =
                             Some([dir EXCEPT !.review = Some(review)])]
                      /\ lab_index' = upsert_experiment(lab_index, experiment_id,
                                                        IndexEntry(dir.spec, "reviewed"))
                      /\ result' = Some(review)
                      /\ raised' = "none"
    /\ UNCHANGED labFrame

LabNext == LabPropose \/ LabRun \/ LabReview

LabSpec == LabInit /\ [][LabNext]_vars

\* ---- C34
\* The registry status of an experiment; "none" for one not registered.
RegistryStatus(index, experiment_id) ==
    IF index[experiment_id] = None THEN "none" ELSE Get(index[experiment_id]).status
\* Whether the experiment has been run: its execution log exists.
HasBeenRun(experiment_id) ==
    /\ lab_experiments[experiment_id] # None
    /\ Get(lab_experiments[experiment_id]).execution_log # None

\* C34: a registered experiment has status proposed, completed, failed or
\* reviewed; propose registers the new experiment as proposed; a run that
\* returns sets the status to completed when the command exited with code
\* 0 and to failed otherwise (policy violation and timeout included);
\* review sets it to reviewed; review of an experiment that has not been
\* run raises NotFound and leaves every status unchanged.
C34_RegistryStatusFollowsTheWorkflow ==
    [][ op = "lab" =>
          /\ \A e \in LabExperimentIds :
                RegistryStatus(lab_index', e)
                    \in {"none", "proposed", "completed", "failed", "reviewed"}
          /\ call'.op = "propose"
             => \E e \in LabExperimentIds :
                   /\ RegistryStatus(lab_index, e) = "none"
                   /\ RegistryStatus(lab_index', e) = "proposed"
                   /\ \A other \in LabExperimentIds \ {e} : lab_index'[other] = lab_index[other]
          /\ (call'.op = "run" /\ raised' = "none")
             => RegistryStatus(lab_index', call'.experiment_id) =
                   (IF Get(result').return_code = 0 THEN "completed" ELSE "failed")
          /\ (call'.op = "review" /\ raised' = "none")
             => RegistryStatus(lab_index', call'.experiment_id) = "reviewed"
          /\ (call'.op = "review" /\ ~HasBeenRun(call'.experiment_id))
             => raised' = "NotFound" /\ lab_index' = lab_index ]_vars

\* An experiment was proposed, its command ran into the policy, and it was
\* reviewed; the other was proposed and its review was refused.
C34_Witness ==
    /\ op = "lab"
    /\ RegistryStatus(lab_index, "exp-1") = "reviewed"
    /\ Get(Get(lab_experiments["exp-1"]).execution_log).return_code = 126
    /\ RegistryStatus(lab_index, "exp-2") = "proposed"
    /\ call = [op |-> "review", experiment_id |-> "exp-2"]
    /\ raised = "NotFound"

\* ============================ generate, one write at a time, and killed
\* One write of _execute_generation into the run directory: a directory
\* made or a file written, with the content the file gets.
Write(kind, file, fid, it, content) ==
    [kind |-> kind, file |-> file, figure_id |-> fid, iteration |-> it,
     content |-> content]

\* _write_run_metadata, _write_sections, _write_plan, _write_prompts and
\* _write_style_refs, in the order of the calls.
OpeningOrder == << "run.json", "sections.json", "plan.json", "prompts/plan_figure.txt",
                   "prompts/critique_figure.txt", "style_refs.json" >>

\* captions.txt, traceability.json, the inspection snapshot, the docs drift
\* report, the architecture critique and the audit report, in the order
\* the finalization pipeline writes them.
ClosingOrder == << "captions.txt", "traceability.json", "inspect.json",
                   "docs_drift_report.json", "architecture_critique.json",
                   "repro_audit.json" >>

\* The generator writes figure.svg, element_metadata.json and
\* traceability.json; critique.json follows the critic's verdict.
IterOrder == << "svg", "element_metadata", "traceability", "critique" >>

\* shutil.copy2 of the three files, in this order.
FinalOrder == << "svg", "element_metadata", "traceability" >>

RECURSIVE Flatten(_)
Flatten(seqs) == IF seqs = << >> THEN << >> ELSE Head(seqs) \o Flatten(Tail(seqs))

\* The writes of the files of order that the run gets to write.
FileWrites(order, files) ==
    LET written == SelectSeq(order, LAMBDA f : files[f] # None)
    IN  [k \in DOMAIN written |-> Write("file", written[k], 0, 0, Get(files[written[k]]))]

\* output_dir.mkdir of the generator, then the files of one iteration.
IterWrites(fid, it, iterdir) ==
    LET written == SelectSeq(IterOrder, LAMBDA f : iterdir[f] # None)
    IN  << Write("iter_dir", "", fid, it, None) >>
        \o [k \in DOMAIN written |-> Write("iter", written[k], fid, it, iterdir[written[k]])]

\* figure_dir.mkdir, the iterations, then final_dir.mkdir and the copies.
FigureWrites(fid, figdir) ==
    LET slots == SelectSeq([i \in IterationSlots |-> i], LAMBDA i : figdir.iters[i] # None)
    IN  << Write("figure_dir", "", fid, 0, None) >>
        \o Flatten([k \in DOMAIN slots |->
                      IterWrites(fid, slots[k], Get(figdir.iters[slots[k]]))])
        \o (IF figdir.final = None THEN << >>
            ELSE << Write("final_dir", "", fid, 0, None) >>
                 \o [k \in DOMAIN FinalOrder |->
                        Write("final", FinalOrder[k], fid, 0,
                              Get(figdir.final)[FinalOrder[k]])])

\* Every write of a generate that leaves the run directory whole, in
\* order: figures_dir.mkdir and exports_dir.mkdir first, then the opening
\* files, the figures by plan order, and the closing files.
WriteLog(whole, p) ==
    << Write("run_dir", "", 0, 0, whole.elements) >>
    \o FileWrites(OpeningOrder, whole.files)
    \o Flatten([i \in DOMAIN p |->
                  IF whole.figures[p[i].figure_id] = None THEN << >>
                  ELSE FigureWrites(p[i].figure_id, Get(whole.figures[p[i].figure_id]))])
    \o FileWrites(ClosingOrder, whole.files)

\* The run directory right after figures_dir.mkdir(parents=True) and
\* exports_dir.mkdir.
CreatedRunDir(elements) ==
    [files |-> [f \in TopFiles |-> None],
     figures |-> [f \in FigureIds |-> None],
     coverage |-> None,
     elements |-> elements,
     exports |-> EmptyExportDir]

EmptyFinalDir == [svg |-> None, element_metadata |-> None, traceability |-> None]

\* The run directory after one more write.
Written(dir, w) ==
    CASE w.kind = "run_dir" -> CreatedRunDir(w.content)
      [] w.kind = "file" -> [Get(dir) EXCEPT !.files[w.file] = Some(w.content)]
      [] w.kind = "figure_dir" ->
            [Get(dir) EXCEPT !.figures[w.figure_id] = Some(EmptyFigureDir)]
      [] w.kind = "iter_dir" ->
            [Get(dir) EXCEPT !.figures[w.figure_id] =
                Some([Get(@) EXCEPT !.iters[w.iteration] = Some(EmptyIterDir)])]
      [] w.kind = "iter" ->
            [Get(dir) EXCEPT !.figures[w.figure_id] =
                Some([Get(@) EXCEPT !.iters[w.iteration] =
                         Some([Get(@) EXCEPT ![w.file] = w.content])])]
      [] w.kind = "final_dir" ->
            [Get(dir) EXCEPT !.figures[w.figure_id] =
                Some([Get(@) EXCEPT !.final = Some(EmptyFinalDir)])]
      [] w.kind = "final" ->
            [Get(dir) EXCEPT !.figures[w.figure_id] =
                Some([Get(@) EXCEPT !.final = Some([Get(@) EXCEPT ![w.file] = w.content])])]

\* The average coverage inspect computes is kept with the directory.
Measured(dir, cap) ==
    [dir EXCEPT !.coverage = Aggregate(FigureSummaries(dir, cap)).avg_traceability_coverage]

\* The runs followed: by plan, cap, outcome of the loops and the stage that
\* ends the run.
KilledRuns ==
    { u \in Plans \X {1, MaxIterations} \X VerdictPatterns
              \X {"loop", "drift", "complete", "critiqued"} :
         /\ u[4] \in {"loop", "critiqued"} => Len(u[1]) > 0
         /\ (Len(u[1]) = 0 \/ u[4] = "loop") => u[3] = [f \in FigureIds |-> "accepted"] }

\* An orchestrator starts a generate for run-a on an empty run root.
KillInit ==
    /\ NoManifest
    /\ NoLab
    /\ \E u \in KilledRuns :
          /\ plan = u[1]
          /\ max_iterations = u[2]
          /\ arch_critique_mode = IF u[4] = "critiqued" THEN "inline" ELSE "off"
          /\ pending = WriteLog(OpsDirectory("run-a", u[1], u[2], u[3], u[4],
                                             DefaultElements), u[1])
    /\ arch_critique_block_severity = "critical"
    /\ repro_audit_mode = "soft"
    /\ docs_auto_regen_on_generate = TRUE
    /\ quality_threshold = 75
    /\ dimension_threshold = 55
    /\ template_pack = "expanded_v1"
    /\ op = "generate"
    /\ caller = SelfConfig
    /\ source_run = NoSourceRun
    /\ plan_override = None
    /\ metadata_overrides = None
    /\ run_id = Some("run-a")
    /\ planner_calls = 1
    /\ run_root = [r \in RunIds |-> None]
    /\ run_id_1 = "run-a"
    /\ run_id_2 = "run-a"
    /\ diff_report = None
    /\ call = NoCall
    /\ result = None
    /\ export_out = None
    /\ docs = "unread"
    /\ pc = "writing"
    /\ raised = "none"
    /\ figure_index = 0
    /\ iteration = 0
    /\ accepted = FALSE
    /\ last_report = None
    /\ critique_feedback = None
    /\ candidate = None
    /\ captions = <<>>
    /\ traceability_records = <<>>
    /\ runFiles = [f \in TopFiles |-> None]
    /\ figures = [f \in FigureIds |-> None]
    /\ events = <<>>

killFrame == <<max_iterations, arch_critique_mode, arch_critique_block_severity,
               repro_audit_mode, docs_auto_regen_on_generate, plan,
               quality_threshold, dimension_threshold, template_pack,
               op, caller, source_run, plan_override, metadata_overrides,
               manifest, documents, lab_policy, lab_index, lab_experiments,
               callVars, run_id_1, run_id_2, localVars, runFiles, figures, events,
               docs, diff_report, call, result, export_out, raised>>

\* generate makes its next write.
WriteNext ==
    /\ pc = "writing"
    /\ pending # << >>
    /\ run_root' = [run_root EXCEPT ![Get(run_id)] =
                       Some(Measured(Written(@, Head(pending)), max_iterations))]
    /\ pending' = Tail(pending)
    /\ UNCHANGED <<killFrame, pc>>

\* The process is killed after a write and before the next one; the run
\* directory stays as it is.
Kill ==
    /\ pc = "writing"
    /\ run_root[Get(run_id)] # None
    /\ pending # << >>
    /\ pc' = "ready"
    /\ UNCHANGED <<killFrame, run_root, pending>>

KillNext ==
    \/ WriteNext
    \/ Kill
    \/ InspectCall
    \/ AuditCall

KillSpec == KillInit /\ [][KillNext]_vars

\* ---- C32
\* The run was killed: writes of its generate were never made.
KilledRun == pc # "writing" /\ pending # << >>
\* The call was made on the run directory the killed generate left.
CalledOnKilledRun == KilledRun /\ Called /\ call.run_id = Get(run_id)
\* The top-level files the killed generate did not get to write.
Unwritten == {pending[k].file : k \in {n \in DOMAIN pending : pending[n].kind = "file"}}
\* The iteration directories made whose critique.json was not written.
Uncritiqued ==
    { << pending[k].figure_id, pending[k].iteration >> :
        k \in {n \in DOMAIN pending :
                  /\ pending[n].kind = "iter"
                  /\ pending[n].file = "critique"
                  /\ \A m \in DOMAIN pending :
                        ~(/\ pending[m].kind = "iter_dir"
                          /\ pending[m].figure_id = pending[n].figure_id
                          /\ pending[m].iteration = pending[n].iteration)} }
Warned(summary, warning) == \E k \in DOMAIN summary.warnings : summary.warnings[k] = warning
CheckOf(report, check_id) ==
    report.checks[CHOOSE k \in DOMAIN report.checks : report.checks[k].check_id = check_id]

\* C32: on a run directory left by a generate killed between two of its
\* writes, inspect and audit do not raise. inspect returns a summary that
\* warns of a missing run.json, of a missing plan.json and of every
\* iteration directory left without critique.json, and that counts the
\* figure directories made. audit returns a report in which run.json and
\* every required artifact not yet written is a failed required check and
\* every one in the directory a passed one; the report has not passed when
\* one of them is missing.
C32_KilledRunIsIncompleteNotCorrupt ==
    CalledOnKilledRun =>
        /\ raised = "none"
        /\ result # None
        /\ call.op = "inspect" =>
              LET summary == Get(result)
              IN  /\ ("run.json" \in Unwritten) =
                        Warned(summary, Warning("Missing run metadata: run.json", 0, 0))
                  /\ ("plan.json" \in Unwritten) =
                        Warned(summary, Warning("Missing plan: plan.json", 0, 0))
                  /\ \A f \in FigureIds, i \in IterationSlots :
                        (<< f, i >> \in Uncritiqued) =
                           Warned(summary, Warning("Missing critique file", f, i))
                  /\ call.filters = NoFilters =>
                        summary.aggregate.total_figures =
                           Cardinality({f \in FigureIds : CalledOn.figures[f] # None})
        /\ call.op = "audit" =>
              LET report == Get(result)
              IN  /\ \A f \in RequiredArtifacts :
                        /\ CheckOf(report, f).required
                        /\ CheckOf(report, f).passed = (CalledOn.files[f] # None)
                        /\ f \in Unwritten => f \in report.required_failed
                  /\ CheckOf(report, "run_json_present").required
                  /\ CheckOf(report, "run_json_present").passed = ("run.json" \notin Unwritten)
                  /\ "run.json" \in Unwritten => "run_json_present" \in report.required_failed
                  /\ Unwritten \cap (RequiredArtifacts \cup {"run.json"}) # {} => ~report.passed

\* generate was killed after the generator wrote the second figure's first
\* iteration and before critique.json; inspect returned its summary with
\* the warning for that iteration.
C32_Witness ==
    /\ CalledOnKilledRun
    /\ call.op = "inspect"
    /\ call.filters = NoFilters
    /\ raised = "none"
    /\ Len(plan) = MaxFigures
    /\ Uncritiqued = {<< plan[2].figure_id, 1 >>}
    /\ CalledOn.figures[plan[2].figure_id] # None
    /\ Get(Get(CalledOn.figures[plan[2].figure_id]).iters[1]).traceability # None
    /\ Get(result).warnings = << Warning("Missing critique file", plan[2].figure_id, 1) >>
    /\ Get(result).aggregate.total_figures = 2

\* generate was killed between the copies into final/ and the audit was
\* called: its report fails the checks of the closing files only.
C32_AuditOfAKilledRun ==
    /\ CalledOnKilledRun
    /\ call.op = "audit"
    /\ raised = "none"
    /\ \E k \in DOMAIN pending : pending[k].kind = "final" /\ pending[k].file = "traceability"
    /\ \A k \in DOMAIN pending : ~(pending[k].kind = "final" /\ pending[k].file = "element_metadata")
    /\ ~Get(result).passed
    /\ CheckOf(Get(result), "plan.json").passed
    /\ ~CheckOf(Get(result), "traceability.json").passed

\* A run followed to its last write is one of the whole run directories.
KillSanity ==
    (pc = "writing" /\ pending = << >>) =>
        Get(run_root["run-a"]) \in
            { OpsDirectory("run-a", u[1], u[2], u[3], u[4], DefaultElements) : u \in KilledRuns }

\* ======================= two orchestrator instances generating at once
\* Both instances are built from the same configuration and run in the
\* same working directory, so docs_regenerate of either resolves the
\* manifest and the documents against the same repository root. Each has
\* its own run id; pc, raised and result are held per instance, result
\* being the report docs_regenerate is about to return.

\* The run directory of an instance when its figure loop and the first
\* finalization steps are over: everything up to the inspection snapshot.
BuiltDirectory(rid, p, cap, verdicts, mode) ==
    With(RunFigures(p, cap, verdicts, "complete"), LAMBDA figs :
    With(StartedFiles(rid, p, cap, IF mode = "inline" THEN "critiqued" ELSE "complete"),
         LAMBDA started :
        Measured([files |-> InspectedFiles(AggregatedFiles(started, p, figs), figs, cap),
                  figures |-> figs,
                  coverage |-> None,
                  elements |-> DefaultElements,
                  exports |-> EmptyExportDir], cap)))

PairVerdicts ==
    { [f \in FigureIds |-> "accepted"],
      [f \in FigureIds |-> IF f % 2 = 1 THEN "missed" ELSE "accepted"] }

\* Two generate calls are made at the same time; call records the
\* documents as they were then and the outcome of each instance's loops.
PairInit ==
    /\ NoManifest
    /\ NoLab
    /\ NoPending
    /\ max_iterations = MaxIterations
    /\ arch_critique_mode \in {"off", "inline"}
    /\ arch_critique_block_severity \in {"critical", "major"}
    /\ repro_audit_mode \in {"soft", "hard"}
    /\ docs_auto_regen_on_generate \in BOOLEAN
    /\ quality_threshold = 75
    /\ dimension_threshold = 55
    /\ template_pack = "expanded_v1"
    /\ plan \in Plans
    /\ op = "generate"
    /\ caller = SelfConfig
    /\ source_run = NoSourceRun
    /\ plan_override = None
    /\ metadata_overrides = None
    /\ run_id = None
    /\ planner_calls = 0
    /\ run_root = [r \in RunIds |-> None]
    /\ run_id_1 = "run-a"
    /\ run_id_2 = "run-b"
    /\ diff_report = None
    /\ docs \in DocStates
    /\ \E v \in [RunIds -> PairVerdicts] :
          call = [op |-> "generate", docs |-> docs, verdicts |-> v]
    /\ result = [r \in RunIds |-> None]
    /\ export_out = None
    /\ pc = [r \in RunIds |-> "start"]
    /\ raised = [r \in RunIds |-> "none"]
    /\ figure_index = 0
    /\ iteration = 0
    /\ accepted = FALSE
    /\ last_report = None
    /\ critique_feedback = None
    /\ candidate = None
    /\ captions = <<>>
    /\ traceability_records = <<>>
    /\ runFiles = [f \in TopFiles |-> None]
    /\ figures = [f \in FigureIds |-> None]
    /\ events = <<>>

pairFrame == <<configVars, callVars, run_id_1, run_id_2, diff_report, call,
               export_out, localVars, runFiles, figures, events>>

\* The file of an instance's run directory is written.
WithFile(root, r, file, content) ==
    [root EXCEPT ![r] = Some([Get(@) EXCEPT !.files[file] = Some(content)])]

\* An instance creates its run directory and runs up to the inspection
\* snapshot.
PairBuild(r) ==
    /\ pc[r] = "start"
    /\ run_root' = [run_root EXCEPT ![r] =
                       Some(BuiltDirectory(r, plan, max_iterations, call.verdicts[r],
                                           arch_critique_mode))]
    /\ pc' = [pc EXCEPT ![r] = "docs"]
    /\ UNCHANGED <<pairFrame, docs, result, raised>>

\* run_docs_regeneration reads the documents and renders them.
PairDocsRead(r) ==
    /\ pc[r] = "docs"
    /\ LET report == DocsReport(docs, ~docs_auto_regen_on_generate)
       IN  /\ result' = [result EXCEPT ![r] = Some(report)]
           /\ pc' = [pc EXCEPT ![r] = IF report.written THEN "docs_write" ELSE "docs_gate"]
    /\ UNCHANGED <<pairFrame, docs, run_root, raised>>

\* doc_path.write_text(rendered): the repository documents are rewritten.
PairDocsWrite(r) ==
    /\ pc[r] = "docs_write"
    /\ docs' = DocsAfter("drifted", ~docs_auto_regen_on_generate)
    /\ pc' = [pc EXCEPT ![r] = "docs_gate"]
    /\ UNCHANGED <<pairFrame, run_root, result, raised>>

\* docs_drift_report.json is written and the drift gate decides.
PairDocsGate(r) ==
    /\ pc[r] = "docs_gate"
    /\ run_root' = WithFile(run_root, r, "docs_drift_report.json", Get(result[r]))
    /\ IF DocsGateFails(Get(result[r]))
       THEN /\ pc' = [pc EXCEPT ![r] = "aborted"]
            /\ raised' = [raised EXCEPT ![r] = "DocsDrift"]
       ELSE /\ pc' = [pc EXCEPT ![r] = AfterDocsPc]
            /\ UNCHANGED raised
    /\ UNCHANGED <<pairFrame, docs, result>>

\* The inline architecture critique and its gate.
PairCritiqueArchitecture(r) ==
    /\ pc[r] = "architecture"
    /\ LET report == ArchitectureReport(Get(run_root[r]).files,
                                        arch_critique_block_severity, {})
       IN  /\ run_root' = WithFile(run_root, r, arch_critique_output_file, report)
           /\ IF ArchitectureGateFails(report)
              THEN /\ pc' = [pc EXCEPT ![r] = "aborted"]
                   /\ raised' = [raised EXCEPT ![r] = "ArchitectureBlocked"]
              ELSE /\ pc' = [pc EXCEPT ![r] = "audit"]
                   /\ UNCHANGED raised
    /\ UNCHANGED <<pairFrame, docs, result>>

\* The reproducibility audit and its gate.
PairAudit(r) ==
    /\ pc[r] = "audit"
    /\ LET report == ReproAuditReport(Get(run_root[r]).files, repro_audit_mode, "h")
       IN  /\ run_root' = WithFile(run_root, r, repro_audit_output_file, report)
           /\ IF AuditGateFails(repro_audit_mode, report)
              THEN /\ pc' = [pc EXCEPT ![r] = "aborted"]
                   /\ raised' = [raised EXCEPT ![r] = "ReproAuditFailed"]
              ELSE /\ pc' = [pc EXCEPT ![r] = "done"]
                   /\ UNCHANGED raised
    /\ UNCHANGED <<pairFrame, docs, result>>

PairNext ==
    \E r \in RunIds :
        \/ PairBuild(r)
        \/ PairDocsRead(r)
        \/ PairDocsWrite(r)
        \/ PairDocsGate(r)
        \/ PairCritiqueArchitecture(r)
        \/ PairAudit(r)

PairSpec == PairInit /\ [][PairNext]_vars

\* ---- C31
PairFinished(r) == pc[r] \in {"done", "aborted"}
\* The gate a generate of this configuration fails at when it runs alone
\* on the documents as they were at the calls ("none": it returns).
AloneOutcome(r) ==
    IF DocsGateFails(DocsReport(call.docs, ~docs_auto_regen_on_generate))
    THEN "DocsDrift"
    ELSE LET dir == BuiltDirectory(r, plan, max_iterations, call.verdicts[r],
                                   arch_critique_mode)
             checked == [dir.files EXCEPT !["docs_drift_report.json"] =
                            Some(DocsReport(call.docs, ~docs_auto_regen_on_generate))]
             architecture == ArchitectureReport(checked, arch_critique_block_severity, {})
             reviewed == IF arch_critique_mode = "inline"
                         THEN [checked EXCEPT ![arch_critique_output_file] =
                                  Some(architecture)]
                         ELSE checked
         IN  IF arch_critique_mode = "inline" /\ ArchitectureGateFails(architecture)
             THEN "ArchitectureBlocked"
             ELSE IF AuditGateFails(repro_audit_mode,
                                    ReproAuditReport(reviewed, repro_audit_mode, "h"))
             THEN "ReproAuditFailed"
             ELSE "none"

\* C31: of two instances generating at once with distinct run ids, each
\* ends as it would have ended alone, whatever the interleaving: it returns
\* or fails at the same gate.
C31_OutcomeIsTheSameInEveryInterleaving ==
    \A r \in RunIds : PairFinished(r) => raised[r] = AloneOutcome(r)

\* C31, the writes: no step of an instance changes anything but its own
\* run directory (the repository documents stay as they are).
C31_WritesOnlyInsideOwnRunDirectory ==
    [][\A r \in RunIds :
          pc'[r] # pc[r] =>
              /\ docs' = docs
              /\ \A o \in RunIds \ {r} : run_root'[o] = run_root[o]]_vars

\* When the runs regenerate nothing (check only, or no document drifted),
\* the outcome of each is the one it has alone.
C31_SameOutcomeWhenNothingIsRegenerated ==
    (~docs_auto_regen_on_generate \/ call.docs # "drifted") =>
        C31_OutcomeIsTheSameInEveryInterleaving

\* Both runs ended on documents that had drifted: the one that read them
\* after the other's regeneration returned, the other failed the drift
\* gate.
C31_OneRunFailsAndTheOtherReturns ==
    /\ call.docs = "drifted"
    /\ docs_auto_regen_on_generate
    /\ pc["run-a"] = "aborted" /\ raised["run-a"] = "DocsDrift"
    /\ pc["run-b"] = "done" /\ raised["run-b"] = "none"

====
